---- MODULE Spec2Model ----
(***************************************************************************)
(* A model of the run pipeline of tstyche (src/build/tstyche.js):          *)
(*   Runner.#run -> TaskRunner.run -> TestTreeWorker.visit, the events it  *)
(*   dispatches through EventEmitter.dispatch, and the handlers that       *)
(*   consume them (ExitCodeHandler, ResultHandler, CancellationHandler);   *)
(*   and of the watch loop (Debounce, WatchService.watch, Runner.#watch).  *)
(*                                                                         *)
(* One step of the run pipeline is one piece of code up to and including   *)
(* one EventEmitter.dispatch, with every handler run inside the step       *)
(* (dispatch is synchronous).  The recursion of TestTreeWorker is kept as  *)
(* an explicit call stack.                                                 *)
(***************************************************************************)
EXTENDS Integers, Sequences, FiniteSets, TLC

VARIABLES
    resolvedConfig,   \* the resolved configuration of the run
    tasks,            \* the Task list handed to Runner.run
    pc,               \* position of Runner.#run / TaskRunner.run
    targetIndex,      \* index into resolvedConfig.target
    taskIndex,        \* index into tasks
    stack,            \* call stack of TestTreeWorker (top = last element)
    cancellationToken,\* CancellationToken: isCancelled, reason
    exitCode,         \* process.exitCode as set by ExitCodeHandler
    handler,          \* ResultHandler's private pointers
    result,           \* the Result object of the run
    targetResults,    \* the TargetResult objects, in creation order
    taskResults,      \* the TaskResult objects, in creation order
    memberResults,    \* Describe/Test/ExpectResult objects of the current task
    event,            \* the event dispatched by the last step
    observed,         \* history of the events published so far (per node counts)
    watchedTestFiles, \* WatchService.#watchedTestFiles: the keys, in insertion order
    changedTestFiles, \* WatchService.#changedTestFiles: the keys, in insertion order
    timeout,          \* Debounce.#timeout: ms until the timer is due, -1: no timer
    resolve,          \* Debounce.#resolve: the state of the promise it resolves
    watching,         \* position of WatchService.watch and of Runner.#watch
    watchersOpen,     \* the file watchers are watching
    inputOpen,        \* the listener of InputService is attached
    batch,            \* the test files Runner.#watch is running
    heard,            \* history of the change notifications
    noted,            \* history of the flushes and of the closing of the watch
    calls,            \* history of the calls of a token that is used on its own
    emitter           \* EventEmitter on its own: the handlers and the calls of handleEvent

watchVars == <<watchedTestFiles, changedTestFiles, timeout, resolve, watching,
               watchersOpen, inputOpen, batch, heard, noted>>

vars == <<resolvedConfig, tasks, pc, targetIndex, taskIndex, stack,
          cancellationToken, exitCode, handler, result, targetResults,
          taskResults, memberResults, event, observed, watchVars, calls, emitter>>

\* what the run and the watch loop leave alone
apart == <<calls, emitter>>

-----------------------------------------------------------------------------
(* Bounds of the model *)

\* number of version tags in resolvedConfig.target
MaxTargets == 2
\* number of tasks in one run
MaxFiles == 2
\* size of a run: its targets plus its files plus the test members of its files
MaxWork == 6
\* number of inputs that differ from the plain run of one file (a second
\* file, a flag bit of a member, a filter, a position, failFast)
MaxMarks == 2
\* number of times a run reads something else than the plain answer from the
\* store, the project service, the compiler or a matcher
MaxFaults == 2
\* number of change notifications, and of batches, counted in a burst
MaxBurst == 3
\* number of calls of cancel and reset on a token that is used on its own
MaxCalls == 4

-----------------------------------------------------------------------------
(* TestMemberFlags, as bits of an integer *)

FlagFail == 1
FlagOnly == 2
FlagSkip == 4
FlagTodo == 8

\* mode & bit
HasBit(mode, bit) == (mode \div bit) % 2 = 1
\* mode |= bit
SetBit(mode, bit) == IF HasBit(mode, bit) THEN mode ELSE mode + bit
\* mode &= ~bit
ClearBit(mode, bit) == IF HasBit(mode, bit) THEN mode - bit ELSE mode

-----------------------------------------------------------------------------
(* Test trees.  A tree is the sequence of its members in source order; a   *)
(* member is its brand, the index of its parent (0: the TestTree) and its  *)
(* name, a sequence of letters.  The source start of member n              *)
(* (member.node.getStart()) is n.                                          *)

Member(brand, parent, name) == [brand |-> brand, parent |-> parent, name |-> name]

\* the files the Collector can hand over
Fixtures ==
    << \* 1: an empty file
       << >>,
       \* 2: expect
       << Member("expect", 0, << >>) >>,
       \* 3: test { expect }
       << Member("test", 0, <<"A", "b">>), Member("expect", 1, <<"b">>) >>,
       \* 4: describe { expect }
       << Member("describe", 0, <<"a">>), Member("expect", 1, << >>) >>,
       \* 5: test { test }
       << Member("test", 0, <<"a">>), Member("test", 1, <<"b">>) >>,
       \* 6: describe { test { expect(expect) } }
       << Member("describe", 0, <<"a">>), Member("test", 1, <<"B", "a">>),
          Member("expect", 2, << >>), Member("expect", 3, <<"b">>) >>,
       \* 7: test { expect; expect }
       << Member("test", 0, <<"a">>), Member("expect", 1, << >>),
          Member("expect", 1, <<"a", "b">>) >>,
       \* 8: test; describe { expect }; test
       << Member("test", 0, <<"a">>), Member("describe", 0, <<"b">>),
          Member("expect", 2, << >>), Member("test", 0, <<"a", "B">>) >>,
       \* 9: test { expect }; test; test
       << Member("test", 0, <<"a">>), Member("expect", 1, << >>),
          Member("test", 0, <<"b">>), Member("test", 0, <<"A", "B">>) >>,
       \* 10: describe { test }; test
       << Member("describe", 0, <<"a", "b">>), Member("test", 1, <<"a">>),
          Member("test", 0, << >>) >>,
       \* 11: describe { describe { test { test } } }
       << Member("describe", 0, <<"a">>), Member("describe", 1, <<"b">>),
          Member("test", 2, << >>), Member("test", 3, << >>) >>,
       \* 12: describe { describe { test }; test }
       << Member("describe", 0, <<"a">>), Member("describe", 1, << >>),
          Member("test", 2, <<"b">>), Member("test", 1, << >>) >>
    >>

\* root.members / member.members, in source order
Members(tree, parent) ==
    SelectSeq([n \in 1..Len(tree) |-> n], LAMBDA n : tree[n].parent = parent)

-----------------------------------------------------------------------------
(* Inputs of a run *)

\* resolvedConfig.only, resolvedConfig.skip: whether the filter is set
\* (!= null) and its text
NoFilter == [set |-> FALSE, text |-> << >>]

\* the filter texts a run is given
FilterTexts == {<<"B">>, <<"c">>}

\* the test tree of task k
TreeOf(k) == Fixtures[tasks[k].file]

\* member.flags of member n of task k
FlagsOf(k, n) == tasks[k].flags[n]

\* String.prototype.toLowerCase
toLowerCase(text) ==
    [i \in 1..Len(text) |->
        CASE text[i] = "A" -> "a" [] text[i] = "B" -> "b" [] OTHER -> text[i]]

\* String.prototype.includes
includes(text, part) ==
    \E start \in 0..(Len(text) - Len(part)) :
        \A i \in 1..Len(part) : text[start + i] = part[i]

\* member.name.toLowerCase().includes(filter.toLowerCase())
NameIncludes(filter, k, n) ==
    includes(toLowerCase(TreeOf(k)[n].name), toLowerCase(filter.text))

-----------------------------------------------------------------------------
(* TestMember.validate: one diagnostic per child of a brand that cannot be *)
(* nested within the member; the result is the list of offending children. *)

validate(tree, n) ==
    IF tree[n].brand = "describe"
    THEN SelectSeq(Members(tree, n), LAMBDA c : tree[c].brand = "expect")
    ELSE SelectSeq(Members(tree, n), LAMBDA c : tree[c].brand # "expect")

(* TestTree.hasOnly: some member below root carries the Only flag *)
RECURSIVE hasOnlyBelow(_, _, _)
hasOnlyBelow(tree, flags, root) ==
    \E branch \in {n \in 1..Len(tree) : tree[n].parent = root} :
        HasBit(flags[branch], FlagOnly) \/ hasOnlyBelow(tree, flags, branch)

hasOnly(tree, flags) == hasOnlyBelow(tree, flags, 0)

\* WorkerHasOnly without the position of the task
WorkerHasOnly_NoPosition(k) ==
    \/ hasOnly(TreeOf(k), tasks[k].flags)
    \/ resolvedConfig.only.set

\* WorkerHasOnly without testTree.hasOnly
WorkerHasOnly_FiltersOnly(k) ==
    \/ resolvedConfig.only.set
    \/ tasks[k].position # 0

(* TestTreeWorker constructor: this.#hasOnly *)
WorkerHasOnly(k) ==
    \/ hasOnly(TreeOf(k), tasks[k].flags)
    \/ resolvedConfig.only.set
    \/ tasks[k].position # 0

\* resolveRunMode without the todo flag
resolveRunMode_NoTodo(mode, k, n) ==
    LET m1 == IF HasBit(FlagsOf(k, n), FlagFail) THEN SetBit(mode, FlagFail) ELSE mode
        m2 == IF \/ HasBit(FlagsOf(k, n), FlagOnly)
                 \/ (resolvedConfig.only.set /\ NameIncludes(resolvedConfig.only, k, n))
              THEN SetBit(m1, FlagOnly) ELSE m1
        m3 == IF \/ HasBit(FlagsOf(k, n), FlagSkip)
                 \/ (resolvedConfig.skip.set /\ NameIncludes(resolvedConfig.skip, k, n))
              THEN SetBit(m2, FlagSkip) ELSE m2
    IN  IF tasks[k].position # 0 /\ n = tasks[k].position
        THEN ClearBit(SetBit(m3, FlagOnly), FlagSkip)
        ELSE m3

\* #resolveRunMode with a position that does not clear Skip
resolveRunMode_KeepsSkip(mode, k, n) ==
    LET m1 == IF HasBit(FlagsOf(k, n), FlagFail) THEN SetBit(mode, FlagFail) ELSE mode
        m2 == IF \/ HasBit(FlagsOf(k, n), FlagOnly)
                 \/ (resolvedConfig.only.set /\ NameIncludes(resolvedConfig.only, k, n))
              THEN SetBit(m1, FlagOnly) ELSE m1
        m3 == IF \/ HasBit(FlagsOf(k, n), FlagSkip)
                 \/ (resolvedConfig.skip.set /\ NameIncludes(resolvedConfig.skip, k, n))
              THEN SetBit(m2, FlagSkip) ELSE m2
        m4 == IF HasBit(FlagsOf(k, n), FlagTodo) THEN SetBit(m3, FlagTodo) ELSE m3
    IN  IF tasks[k].position # 0 /\ n = tasks[k].position
        THEN SetBit(m4, FlagOnly)
        ELSE m4

(* TestTreeWorker.#resolveRunMode *)
resolveRunMode(mode, k, n) ==
    LET m1 == IF HasBit(FlagsOf(k, n), FlagFail) THEN SetBit(mode, FlagFail) ELSE mode
        m2 == IF \/ HasBit(FlagsOf(k, n), FlagOnly)
                 \/ (resolvedConfig.only.set /\ NameIncludes(resolvedConfig.only, k, n))
              THEN SetBit(m1, FlagOnly) ELSE m1
        m3 == IF \/ HasBit(FlagsOf(k, n), FlagSkip)
                 \/ (resolvedConfig.skip.set /\ NameIncludes(resolvedConfig.skip, k, n))
              THEN SetBit(m2, FlagSkip) ELSE m2
        m4 == IF HasBit(FlagsOf(k, n), FlagTodo) THEN SetBit(m3, FlagTodo) ELSE m3
    IN  IF tasks[k].position # 0 /\ n = tasks[k].position
        THEN ClearBit(SetBit(m4, FlagOnly), FlagSkip)
        ELSE m4

(* runMode & 4 || (this.#hasOnly && !(runMode & 2)) *)
IsSkipped(runMode, k) ==
    HasBit(runMode, FlagSkip) \/ (WorkerHasOnly(k) /\ ~HasBit(runMode, FlagOnly))

-----------------------------------------------------------------------------
(* Result objects *)

\* new ResultCount()
ResultCount == [failed |-> 0, passed |-> 0, skipped |-> 0, todo |-> 0]

\* ResultCount.total
Total(count) == count.failed + count.passed + count.skipped + count.todo

\* Increment counting twice
Increment_Twice(count, bucket) == [count EXCEPT ![bucket] = @ + 2]

\* count[bucket]++
Increment(count, bucket) == [count EXCEPT ![bucket] = @ + 1]

\* new Result(resolvedConfig, tasks)
NewResult ==
    [expectCount |-> ResultCount, fileCount |-> ResultCount,
     targetCount |-> ResultCount, testCount |-> ResultCount]

\* new TargetResult(versionTag, tasks)
NewTargetResult == [status |-> "runs"]

\* new TaskResult(task); diagnostics is the number of diagnostics pushed
NewTaskResult(k) ==
    [task |-> k, status |-> "runs", diagnostics |-> 0,
     expectCount |-> ResultCount, testCount |-> ResultCount]

\* a DescribeResult that does not keep its parent
NewMemberResult_NoParent(parentResult) ==
    [status |-> "runs", parent |-> 0, expectCount |-> ResultCount,
     container |-> <<"none", 0>>]

\* new DescribeResult / TestResult / ExpectResult (member, parentResult)
NewMemberResult(parentResult) ==
    [status |-> "runs", parent |-> parentResult, expectCount |-> ResultCount,
     container |-> <<"none", 0>>]

\* no result object created yet for a member
NoMemberResult ==
    [status |-> "none", parent |-> 0, expectCount |-> ResultCount,
     container |-> <<"none", 0>>]

\* ResultHandler's pointers (0: undefined); result is a flag, the others index
\* targetResults, taskResults and memberResults
NoPointers ==
    [result |-> FALSE, targetResult |-> 0, projectResult |-> FALSE,
     taskResult |-> 0, describeResult |-> 0, testResult |-> 0, expectResult |-> 0]

-----------------------------------------------------------------------------
(* Events.  An event is its name and its payload: result (the index of the *)
(* TargetResult or TaskResult, or the member of the member result; 0 when  *)
(* the payload has none), parent (the parentResult a member result was     *)
(* constructed with) and diagnostics (the category of each diagnostic; the *)
(* empty sequence also stands for a payload without diagnostics).  member  *)
(* is the test member the publishing code was handling (0: none).          *)

Event(name, res, parent, diagnostics, member) ==
    [name |-> name, result |-> res, parent |-> parent,
     diagnostics |-> diagnostics, member |-> member]

NoEvent == Event("", 0, 0, << >>, 0)

\* Diagnostic.error(...), Diagnostic.fromDiagnostics(...)
ErrorDiagnostics == << "error" >>

\* HasErrorDiagnostic that finds no diagnostic of the category error
HasErrorDiagnostic_Never(e) == FALSE

\* payload.diagnostics.some((diagnostic) => diagnostic.category === "error")
HasErrorDiagnostic(e) ==
    \E i \in 1..Len(e.diagnostics) : e.diagnostics[i] = "error"

TestTerminal == {"test:todo", "test:error", "test:skip", "test:fail", "test:pass"}
ExpectTerminal == {"expect:skip", "expect:error", "expect:pass", "expect:fail"}
MemberStart == {"describe:start", "test:start", "expect:start"}
MemberTerminal == {"describe:end"} \cup TestTerminal \cup ExpectTerminal

-----------------------------------------------------------------------------
(* CancellationToken *)

NewCancellationToken == [isCancelled |-> FALSE, reason |-> "undefined"]

\* cancel with the last reason winning
cancel_Overwrites(token, reason) == [isCancelled |-> TRUE, reason |-> reason]

\* CancellationToken.cancel
cancel(token, reason) ==
    IF ~token.isCancelled
    THEN [isCancelled |-> TRUE, reason |-> reason]
    ELSE token

\* CancellationToken.reset
reset(token) ==
    IF token.isCancelled
    THEN [isCancelled |-> FALSE, reason |-> "undefined"]
    ELSE token

\* CancellationHandler.handleEvent registered whatever failFast is
CancellationHandler_Always(token, e) ==
    IF HasErrorDiagnostic(e)
    THEN cancel(token, "failFast")
    ELSE token

(* CancellationHandler.handleEvent, for the handler Runner.run registers   *)
(* when resolvedConfig.failFast is set                                     *)
CancellationHandler(token, e) ==
    IF resolvedConfig.failFast /\ HasErrorDiagnostic(e)
    THEN cancel(token, "failFast")
    ELSE token

\* ExitCodeHandler.handleEvent with a reset at target:start too
ExitCodeHandler_TargetStart(code, e) ==
    IF e.name \in {"run:start", "target:start"} THEN 0
    ELSE IF HasErrorDiagnostic(e) THEN 1
    ELSE code

(* ExitCodeHandler.handleEvent *)
ExitCodeHandler(code, e) ==
    IF e.name = "run:start" THEN 0
    ELSE IF HasErrorDiagnostic(e) THEN 1
    ELSE code

-----------------------------------------------------------------------------
(* ResultHandler.handleEvent.  The result object of a *:start payload is   *)
(* constructed by the publisher right before the dispatch; here it is      *)
(* created in the same step.                                               *)

\* Bucket with the error events counted as skipped
Bucket_ErrorsSkipped(name) ==
    CASE name \in {"test:fail", "expect:fail"} -> "failed"
      [] name \in {"test:pass", "expect:pass"} -> "passed"
      [] name \in {"test:skip", "expect:skip", "test:error", "expect:error"} -> "skipped"
      [] name = "test:todo" -> "todo"

\* the bucket a terminal event increments
Bucket(name) ==
    CASE name \in {"test:error", "test:fail", "expect:error", "expect:fail"} -> "failed"
      [] name \in {"test:pass", "expect:pass"} -> "passed"
      [] name \in {"test:skip", "expect:skip"} -> "skipped"
      [] name = "test:todo" -> "todo"

\* the status a terminal event sets
StatusOf(name) ==
    CASE Bucket(name) = "failed" -> "failed"
      [] Bucket(name) = "passed" -> "passed"
      [] Bucket(name) = "skipped" -> "skipped"
      [] Bucket(name) = "todo" -> "todo"

ResultHandler(e) ==
    CASE e.name = "run:start" ->
            /\ handler' = [handler EXCEPT !.result = TRUE]
            /\ result' = NewResult
            /\ UNCHANGED <<targetResults, taskResults, memberResults>>
      [] e.name = "run:end" ->
            /\ handler.result
            /\ handler' = [handler EXCEPT !.result = FALSE]
            /\ UNCHANGED <<result, targetResults, taskResults, memberResults>>
      [] e.name = "target:start" ->
            /\ handler.result
            /\ targetResults' = Append(targetResults, NewTargetResult)
            /\ handler' = [handler EXCEPT !.targetResult = Len(targetResults) + 1]
            /\ UNCHANGED <<result, taskResults, memberResults>>
      [] e.name = "target:end" ->
            /\ IF targetResults[handler.targetResult].status = "failed"
               THEN /\ result' = [result EXCEPT !.targetCount = Increment(@, "failed")]
                    /\ UNCHANGED targetResults
               ELSE /\ result' = [result EXCEPT !.targetCount = Increment(@, "passed")]
                    /\ targetResults' =
                          [targetResults EXCEPT ![handler.targetResult].status = "passed"]
            /\ handler' = [handler EXCEPT !.targetResult = 0]
            /\ UNCHANGED <<taskResults, memberResults>>
      [] e.name = "store:error" ->
            /\ IF HasErrorDiagnostic(e)
               THEN targetResults' =
                       [targetResults EXCEPT ![handler.targetResult].status = "failed"]
               ELSE UNCHANGED targetResults
            /\ UNCHANGED <<handler, result, taskResults, memberResults>>
      [] e.name = "project:uses" ->
            /\ handler.targetResult # 0
            /\ handler' = [handler EXCEPT !.projectResult = TRUE]
            /\ UNCHANGED <<result, targetResults, taskResults, memberResults>>
      [] e.name = "project:error" ->
            /\ handler.projectResult
            /\ targetResults' =
                  [targetResults EXCEPT ![handler.targetResult].status = "failed"]
            /\ UNCHANGED <<handler, result, taskResults, memberResults>>
      [] e.name = "task:start" ->
            /\ handler.projectResult
            /\ taskResults' = Append(taskResults, NewTaskResult(taskIndex))
            /\ handler' = [handler EXCEPT !.taskResult = Len(taskResults) + 1]
            /\ memberResults' = [n \in 1..Len(TreeOf(taskIndex)) |-> NoMemberResult]
            /\ UNCHANGED <<result, targetResults>>
      [] e.name = "task:error" ->
            /\ targetResults' =
                  [targetResults EXCEPT ![handler.targetResult].status = "failed"]
            /\ taskResults' =
                  [taskResults EXCEPT ![handler.taskResult].status = "failed",
                                      ![handler.taskResult].diagnostics =
                                          @ + Len(e.diagnostics)]
            /\ UNCHANGED <<handler, result, memberResults>>
      [] e.name = "task:end" ->
            /\ IF \/ taskResults[handler.taskResult].status = "failed"
                  \/ taskResults[handler.taskResult].expectCount.failed > 0
                  \/ taskResults[handler.taskResult].testCount.failed > 0
               THEN /\ result' = [result EXCEPT !.fileCount = Increment(@, "failed")]
                    /\ targetResults' =
                          [targetResults EXCEPT ![handler.targetResult].status = "failed"]
                    /\ taskResults' =
                          [taskResults EXCEPT ![handler.taskResult].status = "failed"]
               ELSE /\ result' = [result EXCEPT !.fileCount = Increment(@, "passed")]
                    /\ taskResults' =
                          [taskResults EXCEPT ![handler.taskResult].status = "passed"]
                    /\ UNCHANGED targetResults
            /\ handler' = [handler EXCEPT !.taskResult = 0]
            /\ UNCHANGED memberResults
      [] e.name = "describe:start" ->
            /\ memberResults' =
                  [memberResults EXCEPT ![e.result] =
                      [NewMemberResult(e.parent) EXCEPT !.container =
                          IF handler.describeResult # 0
                          THEN <<"describe", handler.describeResult>>
                          ELSE <<"task", handler.taskResult>>]]
            /\ handler.taskResult # 0 \/ handler.describeResult # 0
            /\ handler' = [handler EXCEPT !.describeResult = e.result]
            /\ UNCHANGED <<result, targetResults, taskResults>>
      [] e.name = "describe:end" ->
            /\ handler.describeResult # 0
            /\ handler' = [handler EXCEPT !.describeResult =
                              memberResults[handler.describeResult].parent]
            /\ UNCHANGED <<result, targetResults, taskResults, memberResults>>
      [] e.name = "test:start" ->
            /\ memberResults' =
                  [memberResults EXCEPT ![e.result] =
                      [NewMemberResult(e.parent) EXCEPT !.container =
                          IF handler.describeResult # 0
                          THEN <<"describe", handler.describeResult>>
                          ELSE <<"task", handler.taskResult>>]]
            /\ handler.taskResult # 0 \/ handler.describeResult # 0
            /\ handler' = [handler EXCEPT !.testResult = e.result]
            /\ UNCHANGED <<result, targetResults, taskResults>>
      [] e.name \in TestTerminal ->
            /\ handler.result /\ handler.taskResult # 0 /\ handler.testResult # 0
            /\ result' = [result EXCEPT !.testCount = Increment(@, Bucket(e.name))]
            /\ taskResults' =
                  [taskResults EXCEPT ![handler.taskResult].testCount =
                      Increment(@, Bucket(e.name))]
            /\ memberResults' =
                  [memberResults EXCEPT ![handler.testResult].status = StatusOf(e.name)]
            /\ handler' = [handler EXCEPT !.testResult = 0]
            /\ UNCHANGED targetResults
      [] e.name = "expect:start" ->
            /\ memberResults' =
                  [memberResults EXCEPT ![e.result] =
                      [NewMemberResult(e.parent) EXCEPT !.container =
                          IF handler.testResult # 0
                          THEN <<"test", handler.testResult>>
                          ELSE <<"task", handler.taskResult>>]]
            /\ handler.taskResult # 0 \/ handler.testResult # 0
            /\ handler' = [handler EXCEPT !.expectResult = e.result]
            /\ UNCHANGED <<result, targetResults, taskResults>>
      [] e.name \in ExpectTerminal ->
            /\ handler.result /\ handler.taskResult # 0 /\ handler.expectResult # 0
            /\ result' = [result EXCEPT !.expectCount = Increment(@, Bucket(e.name))]
            /\ taskResults' =
                  [taskResults EXCEPT ![handler.taskResult].expectCount =
                      Increment(@, Bucket(e.name))]
            /\ memberResults' =
                  IF handler.testResult # 0
                  THEN [memberResults EXCEPT
                           ![handler.expectResult].status = StatusOf(e.name),
                           ![handler.testResult].expectCount =
                               Increment(@, Bucket(e.name))]
                  ELSE [memberResults EXCEPT
                           ![handler.expectResult].status = StatusOf(e.name)]
            /\ handler' = [handler EXCEPT !.expectResult = 0]
            /\ UNCHANGED targetResults
      [] OTHER ->
            UNCHANGED <<handler, result, targetResults, taskResults, memberResults>>

-----------------------------------------------------------------------------
(* History of the published events, kept beside the program state: the     *)
(* task whose task:start was published last, and for that task the number  *)
(* of start events and the terminal events of each *)
(* member and the task:error events by the member they were published for  *)
(* (0: none); per TaskResult the number of terminal events by name; the    *)
(* events by the <<target, task>> they were published for (task 0: outside *)
(* a task); the first terminal event of an assertion; what the last step    *)
(* read from its collaborators; and the run, target and task events in the *)
(* order of their publication, and the targets whose compiler could not be *)
(* loaded.                                                                 *)

NoInputs ==
    [fault |-> "", diagnostics |-> FALSE, matcher |-> "", matchResult |-> "",
     isNot |-> FALSE, runMode |-> 0]

\* the answers of a step that are not the plain ones
Faults(inputs) ==
    (IF inputs.fault # "" THEN 1 ELSE 0)
    + (IF inputs.diagnostics THEN 1 ELSE 0)
    + (IF inputs.isNot THEN 1 ELSE 0)
    + (IF inputs.matchResult \in {"undefined", "mismatch"} THEN 1 ELSE 0)

\* the events of the run, of its targets and of its tasks
RunLevel ==
    {"run:start", "target:start", "task:start", "task:end", "target:end", "run:end"}

\* the target of the step, when the step is a load that returns undefined
Unloaded(inputs) ==
    IF inputs.fault \in {"store", "fetch", "resource"} THEN {targetIndex} ELSE {}

NoTally == [name \in TestTerminal \cup ExpectTerminal |-> 0]

NoHistory ==
    [task |-> 0, start |-> << >>, term |-> << >>, errors |-> [n \in {0} |-> 0],
     tally |-> << >>, published |-> {},
     firstExpect |-> [name |-> "", where |-> <<0, 0>>],
     inputs |-> NoInputs, faults |-> 0, errorSince |-> FALSE, log |-> << >>,
     unloaded |-> {}]

Observe(e, where, inputs) ==
    /\ observed.faults + Faults(inputs) <= MaxFaults
    /\ observed' =
        [task |-> IF e.name = "task:start" THEN taskIndex ELSE observed.task,
         start |->
            IF e.name = "task:start"
            THEN [n \in 1..Len(TreeOf(taskIndex)) |-> 0]
            ELSE IF e.name \in MemberStart
                 THEN [observed.start EXCEPT ![e.member] = @ + 1]
                 ELSE observed.start,
         term |->
            IF e.name = "task:start"
            THEN [n \in 1..Len(TreeOf(taskIndex)) |-> << >>]
            ELSE IF e.name \in MemberTerminal
                 THEN [observed.term EXCEPT ![e.member] = Append(@, e.name)]
                 ELSE observed.term,
         errors |->
            IF e.name = "task:start"
            THEN [n \in 0..Len(TreeOf(taskIndex)) |-> 0]
            ELSE IF e.name = "task:error"
                 THEN [observed.errors EXCEPT ![e.member] = @ + 1]
                 ELSE observed.errors,
         tally |->
            IF e.name = "task:start"
            THEN Append(observed.tally, NoTally)
            ELSE IF e.name \in TestTerminal \cup ExpectTerminal
                 THEN [observed.tally EXCEPT ![Len(observed.tally)][e.name] = @ + 1]
                 ELSE observed.tally,
         published |-> observed.published \cup {<<where[1], where[2], e.name>>},
         firstExpect |->
            IF observed.firstExpect.name = "" /\ e.name \in ExpectTerminal
            THEN [name |-> e.name, where |-> where]
            ELSE observed.firstExpect,
         inputs |-> inputs,
         faults |-> observed.faults + Faults(inputs),
         errorSince |->
            IF e.name = "run:start"
            THEN FALSE
            ELSE observed.errorSince \/ HasErrorDiagnostic(e),
         log |->
            IF e.name \in RunLevel
            THEN Append(observed.log, <<where[1], where[2], e.name>>)
            ELSE observed.log,
         unloaded |-> observed.unloaded \cup Unloaded(inputs)]

(* EventEmitter.dispatch: every registered handler handles the event, in   *)
(* the order of registration: ExitCodeHandler (Cli.run), ResultHandler     *)
(* (Runner constructor), CancellationHandler (Runner.run, with failFast).  *)
Dispatch(e, where, inputs) ==
    /\ event' = e
    /\ exitCode' = ExitCodeHandler(exitCode, e)
    /\ ResultHandler(e)
    /\ cancellationToken' = CancellationHandler(cancellationToken, e)
    /\ Observe(e, where, inputs)

(* EventEmitter.dispatch before Cli.run has constructed TSTyche: the        *)
(* handlers are ExitCodeHandler, SetupReporter and the CancellationHandler *)
(* Cli.run registers, which cancels with configError.                      *)
CliDispatch(e) ==
    /\ event' = e
    /\ exitCode' = ExitCodeHandler(exitCode, e)
    /\ cancellationToken' = IF HasErrorDiagnostic(e)
                            THEN cancel(cancellationToken, "configError")
                            ELSE cancellationToken
    /\ Observe(e, <<0, 0>>, NoInputs)
    /\ UNCHANGED <<handler, result, targetResults, taskResults, memberResults>>

\* a step that dispatches nothing
Reads(inputs) ==
    /\ observed.faults + Faults(inputs) <= MaxFaults
    /\ event' = NoEvent
    /\ observed' = [observed EXCEPT !.inputs = inputs,
                                    !.faults = @ + Faults(inputs),
                                    !.unloaded = @ \cup Unloaded(inputs)]
    /\ UNCHANGED <<cancellationToken, exitCode, handler, result, targetResults,
                   taskResults, memberResults>>

Silent == Reads(NoInputs)

-----------------------------------------------------------------------------
(* The inputs of a run: the number of targets, the files, and the marks,   *)
(* each a flag bit of a member, the text of a filter, the position of a    *)
(* task (one past the last member: the start of no member), or failFast.   *)
(* The files after the first and the marks are at most MaxMarks together.  *)

RECURSIVE SumSizes(_)
SumSizes(files) ==
    IF files = << >> THEN 0 ELSE Len(Fixtures[Head(files)]) + SumSizes(Tail(files))

FileLists == UNION {[1..m -> 1..Len(Fixtures)] : m \in 1..MaxFiles}

RunShapes ==
    {shape \in [target : 1..MaxTargets, files : FileLists] :
        shape.target + Len(shape.files) + SumSizes(shape.files) <= MaxWork}

MarksOf(shape) ==
    LET nodes == {kn \in (1..Len(shape.files)) \X (0..MaxWork) :
                     kn[2] <= Len(Fixtures[shape.files[kn[1]]])}
    IN  {<<"flag", kn[1], kn[2], bit>> :
            kn \in {x \in nodes : x[2] > 0},
            bit \in {FlagFail, FlagOnly, FlagSkip, FlagTodo}}
        \cup {<<"only", 0, 0, text>> : text \in FilterTexts}
        \cup {<<"skip", 0, 0, text>> : text \in FilterTexts}
        \cup {<<"position", kn[1], kn[2] + 1, 0>> : kn \in nodes}
        \cup {<<"failFast", 0, 0, 0>>}

RECURSIVE SubsetsUpTo(_, _)
SubsetsUpTo(universe, size) ==
    IF size = 0 THEN {{}}
    ELSE LET smaller == SubsetsUpTo(universe, size - 1)
         IN  smaller \cup {s \cup {u} : s \in smaller, u \in universe}

\* a file has one position and a filter one text
Consistent(marks) ==
    \A a, b \in marks :
        a[1] \in {"only", "skip", "position"} /\ b[1] = a[1] /\ b[2] = a[2] => a = b

RECURSIVE SumBits(_)
SumBits(bits) ==
    IF bits = {} THEN 0
    ELSE LET bit == CHOOSE b \in bits : TRUE IN bit + SumBits(bits \ {bit})

FilterOf(marks, kind) ==
    IF \E m \in marks : m[1] = kind
    THEN [set |-> TRUE, text |-> (CHOOSE m \in marks : m[1] = kind)[4]]
    ELSE NoFilter

TaskOf(shape, marks, k) ==
    [file |-> shape.files[k],
     position |->
        IF \E m \in marks : m[1] = "position" /\ m[2] = k
        THEN (CHOOSE m \in marks : m[1] = "position" /\ m[2] = k)[3]
        ELSE 0,
     flags |->
        [n \in 1..Len(Fixtures[shape.files[k]]) |->
            SumBits({m[4] : m \in {x \in marks : x[1] = "flag" /\ x[2] = k /\ x[3] = n}})]]

\* no change notification heard yet
NoBurst == [file |-> "", count |-> 0, pure |-> FALSE, yields |-> 0, since |-> 0]

(* The history of the flushes: the files with a task that were notified   *)
(* since the wait was last resolved by the timer or by the run-all key,    *)
(* those notified since the timer last fired, a removed file leaving both, *)
(* what resolved the wait for the batch that is running, the reason        *)
(* onClose was last called with, and whether the run-all key was received  *)
(* with files watched and no batch was yielded since.                      *)
NoNotes == [since |-> {}, pending |-> {}, by |-> "", closed |-> "", key |-> FALSE]

\* no handler is registered and nothing was dispatched
NoEmitter ==
    [handlers |-> << >>, scopeHandlers |-> [e \in {"cli", "runner"} |-> {}],
     invoked |-> << >>]

\* no WatchService: resolvedConfig.watch is not set
NotWatching ==
    /\ watchedTestFiles = << >>
    /\ changedTestFiles = << >>
    /\ timeout = -1
    /\ resolve = "undefined"
    /\ watching = "no"
    /\ watchersOpen = FALSE
    /\ inputOpen = FALSE
    /\ batch = << >>
    /\ heard = NoBurst
    /\ noted = NoNotes
    /\ calls = << >>
    /\ emitter = NoEmitter

Init ==
    /\ \E shape \in RunShapes :
       \E marks \in SubsetsUpTo(MarksOf(shape), MaxMarks - (Len(shape.files) - 1)) :
          /\ Consistent(marks)
          /\ resolvedConfig =
                [target |-> shape.target,
                 failFast |-> <<"failFast", 0, 0, 0>> \in marks,
                 only |-> FilterOf(marks, "only"),
                 skip |-> FilterOf(marks, "skip")]
          /\ tasks = [k \in 1..Len(shape.files) |-> TaskOf(shape, marks, k)]
    /\ pc = "runStart"
    /\ targetIndex = 1
    /\ taskIndex = 1
    /\ stack = << >>
    /\ cancellationToken = NewCancellationToken
    /\ exitCode = 0
    /\ handler = NoPointers
    /\ result = NewResult
    /\ targetResults = << >>
    /\ taskResults = << >>
    /\ memberResults = << >>
    /\ event = NoEvent
    /\ observed = NoHistory
    /\ NotWatching

-----------------------------------------------------------------------------
(* Runner.#run *)

Targets == 1..resolvedConfig.target

\* where the run is: <<target, task>>, task 0 outside TaskRunner.run
AtTarget == <<targetIndex, 0>>
AtTask == <<targetIndex, taskIndex>>

(* Cli.run, in place of the run: configService.parseCommandLine meets an   *)
(* unknown option, dispatches config:error, and Cli.run returns on seeing  *)
(* the token cancelled.                                                    *)
ConfigError ==
    /\ pc = "runStart"
    /\ CliDispatch(Event("config:error", 0, 0, ErrorDiagnostics, 0))
    /\ pc' = "done"
    /\ UNCHANGED <<apart, watchVars, resolvedConfig, tasks, targetIndex, taskIndex, stack>>

(* Cli.run, in place of the run: selectService.selectFiles selects no file *)
(* and dispatches select:error, and Cli.run leaves its loop.               *)
SelectError ==
    /\ pc = "runStart"
    /\ CliDispatch(Event("select:error", 0, 0, ErrorDiagnostics, 0))
    /\ pc' = "done"
    /\ UNCHANGED <<apart, watchVars, resolvedConfig, tasks, targetIndex, taskIndex, stack>>

(* Cli.run with --showConfig, in place of the run: validateTag finds the   *)
(* manifest outdated when the target option is parsed and dispatches       *)
(* store:error with a warning, the configuration is written, and Cli.run   *)
(* leaves its loop.                                                        *)
TargetWarning ==
    /\ pc = "runStart"
    /\ CliDispatch(Event("store:error", 0, 0, << "warning" >>, 0))
    /\ pc' = "done"
    /\ UNCHANGED <<apart, watchVars, resolvedConfig, tasks, targetIndex, taskIndex, stack>>

\* const result = new Result(...); dispatch run:start; first iteration
RunStart ==
    /\ pc = "runStart"
    /\ Dispatch(Event("run:start", 0, 0, << >>, 0), <<0, 0>>, NoInputs)
    /\ pc' = "targetStart"
    /\ targetIndex' = 1
    /\ UNCHANGED <<apart, watchVars, resolvedConfig, tasks, taskIndex, stack>>

\* const targetResult = new TargetResult(...); dispatch target:start
TargetStart ==
    /\ pc = "targetStart"
    /\ Dispatch(Event("target:start", Len(targetResults) + 1, 0, << >>, 0),
                AtTarget, NoInputs)
    /\ pc' = "load"
    /\ UNCHANGED <<apart, watchVars, resolvedConfig, tasks, targetIndex, taskIndex, stack>>

\* const compiler = await this.#storeService.load(versionTag): a compiler
LoadCompiler ==
    /\ pc = "load"
    /\ Silent
    /\ pc' = "tasks"
    /\ taskIndex' = 1
    /\ UNCHANGED <<apart, watchVars, resolvedConfig, tasks, targetIndex, stack>>

\* LoadFails with the tasks run all the same
LoadFails_RunsTasks ==
    /\ pc = "load"
    /\ Dispatch(Event("store:error", 0, 0, ErrorDiagnostics, 0), AtTarget,
                [NoInputs EXCEPT !.fault = "store"])
    /\ pc' = "tasks"
    /\ taskIndex' = 1
    /\ UNCHANGED <<apart, watchVars, resolvedConfig, tasks, targetIndex, stack>>

\* LoadFails leaving the target without its target:end
LoadFails_NoTargetEnd ==
    /\ pc = "load"
    /\ Dispatch(Event("store:error", 0, 0, ErrorDiagnostics, 0), AtTarget,
                [NoInputs EXCEPT !.fault = "store"])
    /\ targetIndex' = targetIndex + 1
    /\ pc' = IF targetIndex + 1 \in Targets THEN "targetStart" ELSE "runEnd"
    /\ UNCHANGED <<apart, watchVars, resolvedConfig, tasks, taskIndex, stack>>

\* StoreService.load: the tag resolves to no version, or the package is
\* locked: store:error is dispatched, no compiler
LoadFails ==
    /\ pc = "load"
    /\ Dispatch(Event("store:error", 0, 0, ErrorDiagnostics, 0), AtTarget,
                [NoInputs EXCEPT !.fault = "store"])
    /\ pc' = "targetEnd"
    /\ UNCHANGED <<apart, watchVars, resolvedConfig, tasks, targetIndex, taskIndex, stack>>

\* PackageService.ensure: the package is not in the store, store:adds
LoadAdds ==
    /\ pc = "load"
    /\ Dispatch(Event("store:adds", 0, 0, << >>, 0), AtTarget,
                [NoInputs EXCEPT !.fault = "adds"])
    /\ pc' = "install"
    /\ UNCHANGED <<apart, watchVars, resolvedConfig, tasks, targetIndex, taskIndex, stack>>

\* PackageService.#add: the package is installed, the compiler loads
InstallDone ==
    /\ pc = "install"
    /\ Silent
    /\ pc' = "tasks"
    /\ taskIndex' = 1
    /\ UNCHANGED <<apart, watchVars, resolvedConfig, tasks, targetIndex, stack>>

\* PackageService.#add: the download fails, store:error, no compiler
InstallFails ==
    /\ pc = "install"
    /\ Dispatch(Event("store:error", 0, 0, ErrorDiagnostics, 0), AtTarget,
                [NoInputs EXCEPT !.fault = "fetch"])
    /\ pc' = "targetEnd"
    /\ UNCHANGED <<apart, watchVars, resolvedConfig, tasks, targetIndex, taskIndex, stack>>

\* PackageService.ensure: the manifest has no resource for the version: no
\* compiler and no event
InstallNothing ==
    /\ pc = "install"
    /\ Reads([NoInputs EXCEPT !.fault = "resource"])
    /\ pc' = "targetEnd"
    /\ UNCHANGED <<apart, watchVars, resolvedConfig, tasks, targetIndex, taskIndex, stack>>

\* the loop over tasks: the next task, or the end of the loop
NextTask ==
    /\ taskIndex' = taskIndex + 1
    /\ pc' = IF taskIndex + 1 > Len(tasks) THEN "targetEnd" ELSE "tasks"

\* dispatch target:end; next iteration or the end of the loop
TargetEnd ==
    /\ pc = "targetEnd"
    /\ Dispatch(Event("target:end", handler.targetResult, 0, << >>, 0),
                AtTarget, NoInputs)
    /\ targetIndex' = targetIndex + 1
    /\ pc' = IF targetIndex + 1 \in Targets THEN "targetStart" ELSE "runEnd"
    /\ UNCHANGED <<apart, watchVars, resolvedConfig, tasks, taskIndex, stack>>

\* dispatch run:end;
\* if (cancellationToken.reason === "failFast") cancellationToken.reset()
RunEnd ==
    /\ pc = "runEnd"
    /\ LET e == Event("run:end", 0, 0, << >>, 0)
           token == CancellationHandler(cancellationToken, e)
       IN  /\ event' = e
           /\ exitCode' = ExitCodeHandler(exitCode, e)
           /\ ResultHandler(e)
           /\ Observe(e, <<0, 0>>, NoInputs)
           /\ cancellationToken' =
                 IF token.reason = "failFast" THEN reset(token) ELSE token
    /\ pc' = "done"
    /\ UNCHANGED <<apart, watchVars, resolvedConfig, tasks, targetIndex, taskIndex, stack>>

-----------------------------------------------------------------------------
(* TaskRunner.run and TaskRunner.#run *)

\* if (cancellationToken?.isCancellationRequested === true) return
TaskCancelled ==
    /\ pc = "tasks"
    /\ cancellationToken.isCancelled
    /\ Silent
    /\ NextTask
    /\ UNCHANGED <<apart, watchVars, resolvedConfig, tasks, targetIndex, stack>>

\* OpenFile without the check of the token at the entry of TaskRunner.run
OpenFile_Unchecked ==
    /\ pc = "tasks"
    /\ \E configFileErrors \in BOOLEAN :
          /\ Dispatch(Event("project:uses", 0, 0, << >>, 0), AtTask,
                      [NoInputs EXCEPT !.fault =
                          IF configFileErrors THEN "project" ELSE ""])
          /\ pc' = IF configFileErrors THEN "projectError" ELSE "taskStart"
    /\ UNCHANGED <<apart, watchVars, resolvedConfig, tasks, targetIndex, taskIndex, stack>>

\* ProjectService.openFile: dispatches project:uses, and project:error when
\* the project's configuration file has errors
OpenFile ==
    /\ pc = "tasks"
    /\ ~cancellationToken.isCancelled
    /\ \E configFileErrors \in BOOLEAN :
          /\ Dispatch(Event("project:uses", 0, 0, << >>, 0), AtTask,
                      [NoInputs EXCEPT !.fault =
                          IF configFileErrors THEN "project" ELSE ""])
          /\ pc' = IF configFileErrors THEN "projectError" ELSE "taskStart"
    /\ UNCHANGED <<apart, watchVars, resolvedConfig, tasks, targetIndex, taskIndex, stack>>

ProjectError ==
    /\ pc = "projectError"
    /\ Dispatch(Event("project:error", 0, 0, ErrorDiagnostics, 0), AtTask, NoInputs)
    /\ pc' = "taskStart"
    /\ UNCHANGED <<apart, watchVars, resolvedConfig, tasks, targetIndex, taskIndex, stack>>

\* const taskResult = new TaskResult(task); dispatch task:start
TaskStart ==
    /\ pc = "taskStart"
    /\ Dispatch(Event("task:start", Len(taskResults) + 1, 0, << >>, 0),
                AtTask, NoInputs)
    /\ pc' = "taskRun"
    /\ UNCHANGED <<apart, watchVars, resolvedConfig, tasks, targetIndex, taskIndex, stack>>

\* #run returns early: no language service, no program or no source file
TaskNothing ==
    /\ pc = "taskRun"
    /\ Reads([NoInputs EXCEPT !.fault = "languageService"])
    /\ pc' = "taskEnd"
    /\ UNCHANGED <<apart, watchVars, resolvedConfig, tasks, targetIndex, taskIndex, stack>>

\* TaskSyntaxError with a task:error that carries no diagnostics
TaskSyntaxError_NoDiagnostics ==
    /\ pc = "taskRun"
    /\ Dispatch(Event("task:error", Len(taskResults), 0, << >>, 0),
                AtTask, [NoInputs EXCEPT !.fault = "syntactic"])
    /\ pc' = "taskEnd"
    /\ UNCHANGED <<apart, watchVars, resolvedConfig, tasks, targetIndex, taskIndex, stack>>

\* syntacticDiagnostics.length > 0
TaskSyntaxError ==
    /\ pc = "taskRun"
    /\ Dispatch(Event("task:error", Len(taskResults), 0, ErrorDiagnostics, 0),
                AtTask, [NoInputs EXCEPT !.fault = "syntactic"])
    /\ pc' = "taskEnd"
    /\ UNCHANGED <<apart, watchVars, resolvedConfig, tasks, targetIndex, taskIndex, stack>>

\* testTree.diagnostics.size > 0
TaskTreeError ==
    /\ pc = "taskRun"
    /\ Dispatch(Event("task:error", Len(taskResults), 0, ErrorDiagnostics, 0),
                AtTask, [NoInputs EXCEPT !.fault = "semantic"])
    /\ pc' = "taskEnd"
    /\ UNCHANGED <<apart, watchVars, resolvedConfig, tasks, targetIndex, taskIndex, stack>>

\* a call of TestTreeWorker.visit(members, runMode, parentResult)
VisitFrame(members, runMode, parentResult) ==
    [op |-> "visit", members |-> members, member |-> 0, runMode |-> runMode,
     parentResult |-> parentResult]

\* a call of #visitDescribe, #visitTest or #visitAssertion, at position op
MemberFrame(op, member, runMode, parentResult) ==
    [op |-> op, members |-> << >>, member |-> member, runMode |-> runMode,
     parentResult |-> parentResult]

\* the call that is executing
Top == stack[Len(stack)]

\* for (const member of members): a visit with no member left returns
RECURSIVE Unwind(_)
Unwind(frames) ==
    IF frames # << >> /\ frames[Len(frames)].op = "visit"
                     /\ frames[Len(frames)].members = << >>
    THEN Unwind(SubSeq(frames, 1, Len(frames) - 1))
    ELSE frames

\* the call on top goes on as the given frames; when the visit of the
\* tree's members has returned, #run returns to TaskRunner.run
Continue(frames) ==
    /\ stack' = Unwind(SubSeq(stack, 1, Len(stack) - 1) \o frames)
    /\ pc' = IF stack' = << >> THEN "taskEnd" ELSE "visit"

\* the call on top returns
Return == Continue(<< >>)

\* testTreeWorker.visit(testTree.members, 0, undefined)
TaskVisit ==
    /\ pc = "taskRun"
    /\ Silent
    /\ Continue(<< VisitFrame(Members(TreeOf(taskIndex), 0), 0, 0) >>)
    /\ UNCHANGED <<apart, watchVars, resolvedConfig, tasks, targetIndex, taskIndex>>

\* dispatch task:end
TaskEnd ==
    /\ pc = "taskEnd"
    /\ Dispatch(Event("task:end", Len(taskResults), 0, << >>, 0), AtTask, NoInputs)
    /\ NextTask
    /\ UNCHANGED <<apart, watchVars, resolvedConfig, tasks, targetIndex, stack>>

-----------------------------------------------------------------------------
(* TestTreeWorker.  The top of the stack is the call that is executing.    *)

\* the loop of visit is at its next member
AtMember ==
    /\ pc = "visit"
    /\ Top.op = "visit"
    /\ Top.members # << >>

\* the visit frame on top, past its current member
Advanced == [Top EXCEPT !.members = Tail(@)]

\* if (this.#cancellationToken?.isCancellationRequested === true) break
VisitCancelled ==
    /\ AtMember
    /\ cancellationToken.isCancelled
    /\ Silent
    /\ Return
    /\ UNCHANGED <<apart, watchVars, resolvedConfig, tasks, targetIndex, taskIndex>>

\* VisitInvalid with diagnostics that are warnings
VisitInvalid_Warns ==
    /\ AtMember
    /\ ~cancellationToken.isCancelled
    /\ LET member == Head(Top.members)
           validationError == validate(TreeOf(taskIndex), member)
       IN  /\ Len(validationError) > 0
           /\ Dispatch(Event("task:error", Len(taskResults), 0,
                             [i \in 1..Len(validationError) |-> "warning"], member),
                       AtTask, NoInputs)
    /\ Return
    /\ UNCHANGED <<apart, watchVars, resolvedConfig, tasks, targetIndex, taskIndex>>

\* VisitInvalid going on with the next member instead of the break
VisitInvalid_Continues ==
    /\ AtMember
    /\ ~cancellationToken.isCancelled
    /\ LET member == Head(Top.members)
           validationError == validate(TreeOf(taskIndex), member)
       IN  /\ Len(validationError) > 0
           /\ Dispatch(Event("task:error", Len(taskResults), 0,
                             [i \in 1..Len(validationError) |-> "error"], member),
                       AtTask, NoInputs)
    /\ Continue(<< Advanced >>)
    /\ UNCHANGED <<apart, watchVars, resolvedConfig, tasks, targetIndex, taskIndex>>

\* validationError.length > 0: dispatch task:error; break
VisitInvalid ==
    /\ AtMember
    /\ ~cancellationToken.isCancelled
    /\ LET member == Head(Top.members)
           validationError == validate(TreeOf(taskIndex), member)
       IN  /\ Len(validationError) > 0
           /\ Dispatch(Event("task:error", Len(taskResults), 0,
                             [i \in 1..Len(validationError) |-> "error"], member),
                       AtTask, NoInputs)
    /\ Return
    /\ UNCHANGED <<apart, watchVars, resolvedConfig, tasks, targetIndex, taskIndex>>

\* Visits without the check of the token at the start of the iteration
Visits_Unchecked(brand) ==
    /\ AtMember
    /\ Len(validate(TreeOf(taskIndex), Head(Top.members))) = 0
    /\ TreeOf(taskIndex)[Head(Top.members)].brand = brand

\* the member is valid and of the given brand
Visits(brand) ==
    /\ AtMember
    /\ ~cancellationToken.isCancelled
    /\ Len(validate(TreeOf(taskIndex), Head(Top.members))) = 0
    /\ TreeOf(taskIndex)[Head(Top.members)].brand = brand

\* #visitDescribe: new DescribeResult(describe, parentResult); describe:start
DescribeStart ==
    /\ Visits("describe")
    /\ LET describe == Head(Top.members)
       IN  /\ Dispatch(Event("describe:start", describe, Top.parentResult, << >>,
                             describe),
                       AtTask, NoInputs)
           /\ Continue(<< Advanced,
                          MemberFrame("describe", describe, Top.runMode, Top.parentResult) >>)
    /\ UNCHANGED <<apart, watchVars, resolvedConfig, tasks, targetIndex, taskIndex>>

\* DescribeError visiting the members of the describe after task:error
DescribeError_Visits ==
    /\ pc = "visit"
    /\ Top.op = "describe"
    /\ LET runMode == resolveRunMode(Top.runMode, taskIndex, Top.member)
       IN  /\ ~(IsSkipped(runMode, taskIndex) \/ HasBit(runMode, FlagTodo))
           /\ Dispatch(Event("task:error", Len(taskResults), 0, ErrorDiagnostics,
                             Top.member),
                       AtTask, [NoInputs EXCEPT !.diagnostics = TRUE,
                                                !.runMode = runMode])
           /\ Continue(<< MemberFrame("describeEnd", Top.member, runMode, Top.parentResult),
                          VisitFrame(Members(TreeOf(taskIndex), Top.member), runMode, Top.member) >>)
    /\ UNCHANGED <<apart, watchVars, resolvedConfig, tasks, targetIndex, taskIndex>>

\* DescribeError returning right after task:error, as #visitTest does
DescribeError_Returns ==
    /\ pc = "visit"
    /\ Top.op = "describe"
    /\ LET runMode == resolveRunMode(Top.runMode, taskIndex, Top.member)
       IN  /\ ~(IsSkipped(runMode, taskIndex) \/ HasBit(runMode, FlagTodo))
           /\ Dispatch(Event("task:error", Len(taskResults), 0, ErrorDiagnostics,
                             Top.member),
                       AtTask, [NoInputs EXCEPT !.diagnostics = TRUE,
                                                !.runMode = runMode])
    /\ Return
    /\ UNCHANGED <<apart, watchVars, resolvedConfig, tasks, targetIndex, taskIndex>>

\* DescribeError whatever the run mode of the describe
DescribeError_AnyMode ==
    /\ pc = "visit"
    /\ Top.op = "describe"
    /\ LET runMode == resolveRunMode(Top.runMode, taskIndex, Top.member)
       IN  /\ Dispatch(Event("task:error", Len(taskResults), 0, ErrorDiagnostics,
                             Top.member),
                       AtTask, [NoInputs EXCEPT !.diagnostics = TRUE,
                                                !.runMode = runMode])
           /\ Continue(<< MemberFrame("describeEnd", Top.member, runMode, Top.parentResult) >>)
    /\ UNCHANGED <<apart, watchVars, resolvedConfig, tasks, targetIndex, taskIndex>>

\* #visitDescribe: the describe has diagnostics and is not skipped or todo
DescribeError ==
    /\ pc = "visit"
    /\ Top.op = "describe"
    /\ LET runMode == resolveRunMode(Top.runMode, taskIndex, Top.member)
       IN  /\ ~(IsSkipped(runMode, taskIndex) \/ HasBit(runMode, FlagTodo))
           /\ Dispatch(Event("task:error", Len(taskResults), 0, ErrorDiagnostics,
                             Top.member),
                       AtTask, [NoInputs EXCEPT !.diagnostics = TRUE,
                                                !.runMode = runMode])
           /\ Continue(<< MemberFrame("describeEnd", Top.member, runMode, Top.parentResult) >>)
    /\ UNCHANGED <<apart, watchVars, resolvedConfig, tasks, targetIndex, taskIndex>>

\* #visitDescribe: this.visit(describe.members, runMode, describeResult)
DescribeVisit ==
    /\ pc = "visit"
    /\ Top.op = "describe"
    /\ LET runMode == resolveRunMode(Top.runMode, taskIndex, Top.member)
       IN  /\ \E diagnostics \in BOOLEAN :
                 /\ diagnostics =>
                       IsSkipped(runMode, taskIndex) \/ HasBit(runMode, FlagTodo)
                 /\ Reads([NoInputs EXCEPT !.diagnostics = diagnostics,
                                           !.runMode = runMode])
           /\ Continue(<< MemberFrame("describeEnd", Top.member, runMode, Top.parentResult),
                          VisitFrame(Members(TreeOf(taskIndex), Top.member), runMode, Top.member) >>)
    /\ UNCHANGED <<apart, watchVars, resolvedConfig, tasks, targetIndex, taskIndex>>

\* #visitDescribe: dispatch describe:end
DescribeEnd ==
    /\ pc = "visit"
    /\ Top.op = "describeEnd"
    /\ Dispatch(Event("describe:end", Top.member, Top.parentResult, << >>,
                      Top.member),
                AtTask, NoInputs)
    /\ Return
    /\ UNCHANGED <<apart, watchVars, resolvedConfig, tasks, targetIndex, taskIndex>>

\* #visitTest: new TestResult(test, parentResult); dispatch test:start
TestStart ==
    /\ Visits("test")
    /\ LET test == Head(Top.members)
       IN  /\ Dispatch(Event("test:start", test, Top.parentResult, << >>, test),
                       AtTask, NoInputs)
           /\ Continue(<< Advanced,
                          MemberFrame("test", test, Top.runMode, Top.parentResult) >>)
    /\ UNCHANGED <<apart, watchVars, resolvedConfig, tasks, targetIndex, taskIndex>>

\* #visitTest: if (runMode & 8) dispatch test:todo
TestTodo ==
    /\ pc = "visit"
    /\ Top.op = "test"
    /\ LET runMode == resolveRunMode(Top.runMode, taskIndex, Top.member)
       IN  /\ HasBit(runMode, FlagTodo)
           /\ \E diagnostics \in BOOLEAN :
                 Dispatch(Event("test:todo", Top.member, Top.parentResult, << >>,
                                Top.member),
                          AtTask, [NoInputs EXCEPT !.diagnostics = diagnostics,
                                                   !.runMode = runMode])
    /\ Return
    /\ UNCHANGED <<apart, watchVars, resolvedConfig, tasks, targetIndex, taskIndex>>

\* #visitTest: the test has diagnostics and is not skipped: test:error
TestError ==
    /\ pc = "visit"
    /\ Top.op = "test"
    /\ LET runMode == resolveRunMode(Top.runMode, taskIndex, Top.member)
       IN  /\ ~HasBit(runMode, FlagTodo)
           /\ ~IsSkipped(runMode, taskIndex)
           /\ Dispatch(Event("test:error", Top.member, Top.parentResult,
                             ErrorDiagnostics, Top.member),
                       AtTask, [NoInputs EXCEPT !.diagnostics = TRUE,
                                                !.runMode = runMode])
    /\ Return
    /\ UNCHANGED <<apart, watchVars, resolvedConfig, tasks, targetIndex, taskIndex>>

\* #visitTest: this.visit(test.members, runMode, testResult)
TestVisit ==
    /\ pc = "visit"
    /\ Top.op = "test"
    /\ LET runMode == resolveRunMode(Top.runMode, taskIndex, Top.member)
       IN  /\ ~HasBit(runMode, FlagTodo)
           /\ \E diagnostics \in BOOLEAN :
                 /\ diagnostics => IsSkipped(runMode, taskIndex)
                 /\ Reads([NoInputs EXCEPT !.diagnostics = diagnostics,
                                           !.runMode = runMode])
           /\ Continue(<< MemberFrame("testEnd", Top.member, runMode, Top.parentResult),
                          VisitFrame(Members(TreeOf(taskIndex), Top.member), runMode, Top.member) >>)
    /\ UNCHANGED <<apart, watchVars, resolvedConfig, tasks, targetIndex, taskIndex>>

\* TestEnd with Only winning over Skip
TestEnd_OnlyWins ==
    /\ pc = "visit"
    /\ Top.op = "testEnd"
    /\ LET name ==
              IF IsSkipped(Top.runMode, taskIndex) /\ ~HasBit(Top.runMode, FlagOnly)
              THEN "test:skip"
              ELSE IF memberResults[Top.member].expectCount.failed > 0
                   THEN "test:fail"
                   ELSE "test:pass"
       IN  Dispatch(Event(name, Top.member, Top.parentResult, << >>, Top.member),
                    AtTask, [NoInputs EXCEPT !.runMode = Top.runMode])
    /\ Return
    /\ UNCHANGED <<apart, watchVars, resolvedConfig, tasks, targetIndex, taskIndex>>

\* #visitTest after the visit of the members: test:skip, test:fail, test:pass
TestEnd ==
    /\ pc = "visit"
    /\ Top.op = "testEnd"
    /\ LET name ==
              IF IsSkipped(Top.runMode, taskIndex) THEN "test:skip"
              ELSE IF memberResults[Top.member].expectCount.failed > 0
                   THEN "test:fail"
                   ELSE "test:pass"
       IN  Dispatch(Event(name, Top.member, Top.parentResult, << >>, Top.member),
                    AtTask, [NoInputs EXCEPT !.runMode = Top.runMode])
    /\ Return
    /\ UNCHANGED <<apart, watchVars, resolvedConfig, tasks, targetIndex, taskIndex>>

\* AssertionVisit with expect:start and the verdict ahead of the nested members
AssertionVisit_StartFirst ==
    /\ Visits("expect")
    /\ LET assertion == Head(Top.members)
       IN  Continue(<< Advanced,
                       VisitFrame(Members(TreeOf(taskIndex), assertion), Top.runMode, Top.parentResult),
                       MemberFrame("expectStart", assertion, Top.runMode, Top.parentResult) >>)
    /\ Silent
    /\ UNCHANGED <<apart, watchVars, resolvedConfig, tasks, targetIndex, taskIndex>>

\* #visitAssertion: this.visit(assertion.members, runMode, parentResult)
AssertionVisit ==
    /\ Visits("expect")
    /\ LET assertion == Head(Top.members)
       IN  Continue(<< Advanced,
                       MemberFrame("expectStart", assertion, Top.runMode, Top.parentResult),
                       VisitFrame(Members(TreeOf(taskIndex), assertion), Top.runMode, Top.parentResult) >>)
    /\ Silent
    /\ UNCHANGED <<apart, watchVars, resolvedConfig, tasks, targetIndex, taskIndex>>

\* #visitAssertion: new ExpectResult(assertion, parentResult); expect:start;
\* runMode = this.#resolveRunMode(runMode, assertion)
AssertionStart ==
    /\ pc = "visit"
    /\ Top.op = "expectStart"
    /\ Dispatch(Event("expect:start", Top.member, Top.parentResult, << >>,
                      Top.member),
                AtTask, NoInputs)
    /\ Continue(<< MemberFrame("expect", Top.member,
                               resolveRunMode(Top.runMode, taskIndex, Top.member),
                               Top.parentResult) >>)
    /\ UNCHANGED <<apart, watchVars, resolvedConfig, tasks, targetIndex, taskIndex>>

\* the assertion on top has its start published and is not skipped
Evaluates ==
    /\ pc = "visit"
    /\ Top.op = "expect"
    /\ ~IsSkipped(Top.runMode, taskIndex)

\* #visitAssertion: dispatch expect:skip
AssertionSkip ==
    /\ pc = "visit"
    /\ Top.op = "expect"
    /\ IsSkipped(Top.runMode, taskIndex)
    /\ \E diagnostics \in BOOLEAN :
          Dispatch(Event("expect:skip", Top.member, Top.parentResult, << >>,
                         Top.member),
                   AtTask, [NoInputs EXCEPT !.diagnostics = diagnostics,
                                            !.runMode = Top.runMode])
    /\ Return
    /\ UNCHANGED <<apart, watchVars, resolvedConfig, tasks, targetIndex, taskIndex>>

\* AssertionError whatever the matcher
AssertionError_AnyMatcher ==
    /\ Evaluates
    /\ \E matcher \in {"toRaiseError", "toBe"} :
          Dispatch(Event("expect:error", Top.member, Top.parentResult,
                         ErrorDiagnostics, Top.member),
                   AtTask, [NoInputs EXCEPT !.diagnostics = TRUE, !.matcher = matcher,
                                            !.runMode = Top.runMode])
    /\ Return
    /\ UNCHANGED <<apart, watchVars, resolvedConfig, tasks, targetIndex, taskIndex>>

\* #visitAssertion: assertion.diagnostics.size > 0 and the matcher is not
\* toRaiseError: onExpectDiagnostics(Diagnostic.fromDiagnostics(...))
AssertionError ==
    /\ Evaluates
    /\ Dispatch(Event("expect:error", Top.member, Top.parentResult,
                      ErrorDiagnostics, Top.member),
                AtTask, [NoInputs EXCEPT !.diagnostics = TRUE, !.matcher = "toBe",
                                         !.runMode = Top.runMode])
    /\ Return
    /\ UNCHANGED <<apart, watchVars, resolvedConfig, tasks, targetIndex, taskIndex>>

(* What ExpectService.match can return for an assertion: "undefined" after *)
(* it called onDiagnostics with error diagnostics, or a match result with  *)
(* isMatch true ("match") or false ("mismatch").  ToRaiseError.match finds *)
(* no match when the assertion has no diagnostics.                         *)
MatchResults(matcher, diagnostics) ==
    IF matcher = "toRaiseError" /\ ~diagnostics
    THEN {"undefined", "mismatch"}
    ELSE {"undefined", "match", "mismatch"}

\* assertion.isNot ? !matchResult.isMatch : matchResult.isMatch
Truth(isNot, matchResult) ==
    IF isNot THEN matchResult # "match" ELSE matchResult = "match"

\* Verdict without the inversion of the fail flag
Verdict_NoInversion(runMode, isNot, matchResult) ==
    IF matchResult = "undefined" THEN "expect:error"
    ELSE IF Truth(isNot, matchResult) THEN "expect:pass" ELSE "expect:fail"

\* #visitAssertion from this.#expectService.match on: the terminal event
Verdict(runMode, isNot, matchResult) ==
    IF matchResult = "undefined" THEN "expect:error"
    ELSE IF Truth(isNot, matchResult)
         THEN IF HasBit(runMode, FlagFail) THEN "expect:error" ELSE "expect:pass"
         ELSE IF HasBit(runMode, FlagFail) THEN "expect:pass" ELSE "expect:fail"

\* the diagnostics of the terminal event: those of onExpectDiagnostics, or
\* matchResult.explain()
VerdictDiagnostics(name) ==
    IF name \in {"expect:error", "expect:fail"} THEN ErrorDiagnostics ELSE << >>

\* #visitAssertion: this.#expectService.match(assertion, onExpectDiagnostics)
\* and the event that follows from its result
AssertionMatch ==
    /\ Evaluates
    /\ \E matcher \in {"toRaiseError", "toBe"}, diagnostics, isNot \in BOOLEAN :
          /\ diagnostics => matcher = "toRaiseError"
          /\ \E matchResult \in MatchResults(matcher, diagnostics) :
                LET name == Verdict(Top.runMode, isNot, matchResult)
                IN  Dispatch(Event(name, Top.member, Top.parentResult,
                                   VerdictDiagnostics(name), Top.member),
                             AtTask,
                             [fault |-> "",
                              diagnostics |-> diagnostics, matcher |-> matcher,
                              matchResult |-> matchResult,
                              isNot |-> IF matchResult = "undefined"
                                        THEN FALSE ELSE isNot,
                              runMode |-> Top.runMode])
    /\ Return
    /\ UNCHANGED <<apart, watchVars, resolvedConfig, tasks, targetIndex, taskIndex>>

-----------------------------------------------------------------------------

Next ==
    \/ ConfigError
    \/ SelectError
    \/ TargetWarning
    \/ RunStart
    \/ TargetStart
    \/ LoadCompiler
    \/ LoadFails
    \/ LoadAdds
    \/ InstallDone
    \/ InstallFails
    \/ InstallNothing
    \/ TaskCancelled
    \/ OpenFile
    \/ ProjectError
    \/ TaskStart
    \/ TaskNothing
    \/ TaskSyntaxError
    \/ TaskTreeError
    \/ TaskVisit
    \/ VisitCancelled
    \/ VisitInvalid
    \/ DescribeStart
    \/ DescribeError
    \/ DescribeVisit
    \/ DescribeEnd
    \/ TestStart
    \/ TestTodo
    \/ TestError
    \/ TestVisit
    \/ TestEnd
    \/ AssertionVisit
    \/ AssertionStart
    \/ AssertionSkip
    \/ AssertionError
    \/ AssertionMatch
    \/ TaskEnd
    \/ TargetEnd
    \/ RunEnd

Spec == Init /\ [][Next]_vars

-----------------------------------------------------------------------------
(* A CancellationToken on its own: a new token, and any calls of cancel    *)
(* and reset, at most MaxCalls of them, which are kept in calls, "reset"   *)
(* standing for a call of reset and a reason for a call of cancel.         *)

\* CancellationReason
Reasons == {"configChange", "configError", "failFast", "watchClose"}

TokenInit ==
    /\ resolvedConfig = [target |-> 1, failFast |-> FALSE,
                         only |-> NoFilter, skip |-> NoFilter]
    /\ tasks = << >>
    /\ pc = "done"
    /\ targetIndex = 1
    /\ taskIndex = 1
    /\ stack = << >>
    /\ cancellationToken = NewCancellationToken
    /\ exitCode = 0
    /\ handler = NoPointers
    /\ result = NewResult
    /\ targetResults = << >>
    /\ taskResults = << >>
    /\ memberResults = << >>
    /\ event = NoEvent
    /\ observed = NoHistory
    /\ NotWatching

\* what the token and the emitter on their own leave alone
besideToken ==
    <<resolvedConfig, tasks, pc, targetIndex, taskIndex, stack, exitCode, handler,
      result, targetResults, taskResults, memberResults, event, observed,
      watchVars>>

\* cancellationToken.cancel(reason)
TokenCancel ==
    /\ Len(calls) < MaxCalls
    /\ \E reason \in Reasons :
          /\ cancellationToken' = cancel(cancellationToken, reason)
          /\ calls' = Append(calls, reason)
    /\ UNCHANGED <<besideToken, emitter>>

\* cancellationToken.reset()
TokenReset ==
    /\ Len(calls) < MaxCalls
    /\ cancellationToken' = reset(cancellationToken)
    /\ calls' = Append(calls, "reset")
    /\ UNCHANGED <<besideToken, emitter>>

TokenNext == TokenCancel \/ TokenReset

SpecToken == TokenInit /\ [][TokenNext]_vars

-----------------------------------------------------------------------------
(* EventEmitter on its own: two instances, as Cli and Runner have one      *)
(* each, and three handlers.  The static Set of handlers is the sequence   *)
(* of its elements in insertion order, which is the order a Set is         *)
(* iterated in; invoked is the sequence of the handlers whose handleEvent  *)
(* the last dispatch has called.  The handlers leave the registrations as  *)
(* they are.                                                               *)

Emitters == {"cli", "runner"}
Handlers == {"exitCodeHandler", "resultHandler", "cancellationHandler"}

\* Set.add with the element already first in the order moved to the end
SetAdd_Moves(set, x) == Append(SelectSeq(set, LAMBDA y : y # x), x)

\* Set.add
SetAdd(set, x) ==
    IF \E i \in 1..Len(set) : set[i] = x THEN set ELSE Append(set, x)

\* Set.delete
SetDelete(set, x) == SelectSeq(set, LAMBDA y : y # x)

\* addHandler(handler)
AddHandler ==
    \E e \in Emitters, h \in Handlers :
       /\ emitter' = [emitter EXCEPT !.scopeHandlers[e] = @ \cup {h},
                                     !.handlers = SetAdd(@, h)]
       /\ UNCHANGED <<besideToken, cancellationToken, calls>>

\* removeHandler(handler)
RemoveHandler ==
    \E e \in Emitters, h \in Handlers :
       /\ emitter' = [emitter EXCEPT !.scopeHandlers[e] = @ \ {h},
                                     !.handlers = SetDelete(@, h)]
       /\ UNCHANGED <<besideToken, cancellationToken, calls>>

\* removeHandlers()
RemoveHandlers ==
    \E e \in Emitters :
       /\ emitter' = [emitter EXCEPT
             !.handlers = SelectSeq(@, LAMBDA h : h \notin emitter.scopeHandlers[e]),
             !.scopeHandlers[e] = {}]
       /\ UNCHANGED <<besideToken, cancellationToken, calls>>

\* for (const handler of EventEmitter.#handlers) handler.handleEvent(event)
RECURSIVE HandleEvents(_, _)
HandleEvents(handlers, invoked) ==
    IF handlers = << >> THEN invoked
    ELSE HandleEvents(Tail(handlers), Append(invoked, Head(handlers)))

\* EventEmitter.dispatch(event)
DispatchEvent ==
    /\ emitter' = [emitter EXCEPT !.invoked = HandleEvents(emitter.handlers, << >>)]
    /\ UNCHANGED <<besideToken, cancellationToken, calls>>

EmitterNext ==
    \/ AddHandler
    \/ RemoveHandler
    \/ RemoveHandlers
    \/ DispatchEvent

SpecEmitter == TokenInit /\ [][EmitterNext]_vars

-----------------------------------------------------------------------------
(* The watch loop: Debounce, WatchService.watch and its consumer           *)
(* Runner.#watch, after the first run of Runner.run.  The callbacks of the *)
(* watchers, of the input and of the timer run to completion, one per      *)
(* step; a callback that resolves the promise watch is awaiting includes   *)
(* the resumption of watch up to its next await or yield, which no other   *)
(* callback can precede.  Time is counted in milliseconds.  The run of a   *)
(* batch is kept to what it does to the cancellation token.                *)

\* new Debounce(100, onResolve)
Delay == 100

\* the paths the watchers report: two test files and another file
Paths == {"a.tst.ts", "b.tst.ts", "c.ts"}

\* SelectService.isTestFile
isTestFile(filePath) == filePath \in {"a.tst.ts", "b.tst.ts"}

\* Map.has, Map.set and Map.delete, on the keys of a map of tasks by path
MapHas(map, key) == \E i \in 1..Len(map) : map[i] = key
MapSet(map, key) == IF MapHas(map, key) THEN map ELSE Append(map, key)
MapDelete(map, key) == SelectSeq(map, LAMBDA k : k # key)

Min(a, b) == IF a < b THEN a ELSE b

\* what the watch loop leaves alone
runPosition == <<resolvedConfig, tasks, pc, targetIndex, taskIndex, stack>>

\* a step of the watch loop that dispatches nothing
Quiet ==
    /\ event' = NoEvent
    /\ UNCHANGED <<exitCode, handler, result, targetResults, taskResults,
                   memberResults, observed>>

(* Runner.run with resolvedConfig.watch: #run has returned, #watch has     *)
(* constructed the WatchService from the tasks and asked watch for its     *)
(* first batch: the watchers are watching, the input is listened to, and   *)
(* watch awaits debounce.setup().                                          *)
WatchInit ==
    /\ \E failFast \in BOOLEAN :
          resolvedConfig = [target |-> 1, failFast |-> failFast,
                            only |-> NoFilter, skip |-> NoFilter]
    /\ tasks = << [file |-> 1, position |-> 0, flags |-> << >>] >>
    /\ pc = "done"
    /\ targetIndex = 1
    /\ taskIndex = 1
    /\ stack = << >>
    /\ cancellationToken = NewCancellationToken
    /\ exitCode = 0
    /\ handler = NoPointers
    /\ result = NewResult
    /\ targetResults = << >>
    /\ taskResults = << >>
    /\ memberResults = << >>
    /\ event = NoEvent
    /\ observed = NoHistory
    /\ watchedTestFiles = << "a.tst.ts" >>
    /\ changedTestFiles = << >>
    /\ timeout = -1
    /\ resolve = "pending"
    /\ watching = "waiting"
    /\ watchersOpen = TRUE
    /\ inputOpen = TRUE
    /\ batch = << >>
    /\ heard = NoBurst
    /\ noted = NoNotes
    /\ calls = << >>
    /\ emitter = NoEmitter

\* while (!cancellationToken.isCancellationRequested)
\*     const testFiles = await debounce.setup()
Loop(token) ==
    IF token.isCancelled
    THEN watching' = "returned" /\ resolve' = "settled"
    ELSE watching' = "waiting" /\ resolve' = "pending"

\* the promise is pending and watch yields the value it is resolved with
Yields(value) == resolve = "pending" /\ Len(value) > 0

\* ResolveWith without the test of testFiles.length
ResolveWith_YieldsEmpty(value, token) ==
    IF resolve = "pending"
    THEN resolve' = "settled" /\ watching' = "yielded" /\ batch' = value
    ELSE UNCHANGED <<resolve, watching, batch>>

(* this.#resolve?.(value): a pending promise is resolved, and watch yields *)
(* the value to Runner.#watch when it is not empty and goes round its loop *)
(* when it is; a promise that is resolved already stays as it is           *)
ResolveWith(value, token) ==
    IF resolve = "pending"
    THEN IF Len(value) > 0
         THEN resolve' = "settled" /\ watching' = "yielded" /\ batch' = value
         ELSE Loop(token) /\ UNCHANGED batch
    ELSE UNCHANGED <<resolve, watching, batch>>

(* The history of the change notifications is that of the burst that is   *)
(* heard: the file, the number of notifications, the number of batches     *)
(* yielded since its first notification, and the time since its last one,  *)
(* up to Delay.  A burst starts with a notification for a watched file     *)
(* that comes when watch is waiting, nothing is changed and no timer is    *)
(* pending; it goes on with every notification for the file that comes     *)
(* less than Delay after the one before it; it is pure until anything else *)
(* is notified or put in, and then the history is not kept.                *)
Hears(filePath) ==
    IF heard.pure /\ heard.since < Delay /\ filePath = heard.file
    THEN [heard EXCEPT !.count = Min(@ + 1, MaxBurst), !.since = 0]
    ELSE IF /\ watching = "waiting"
            /\ changedTestFiles = << >>
            /\ timeout = -1
            /\ MapHas(watchedTestFiles, filePath)
         THEN [file |-> filePath, count |-> 1, pure |-> TRUE, yields |-> 0,
               since |-> 0]
         ELSE NoBurst

\* a notification for a file that has a task or is given one
Notified(filePath) ==
    IF MapHas(watchedTestFiles, filePath) \/ isTestFile(filePath)
    THEN [noted EXCEPT !.since = @ \cup {filePath},
                       !.pending = @ \cup {filePath}]
    ELSE noted

\* a millisecond passes
Tick ==
    /\ watching \in {"waiting", "yielded"}
    /\ timeout > 0 \/ (heard.pure /\ heard.since < Delay)
    /\ timeout' = IF timeout > 0 THEN timeout - 1 ELSE timeout
    /\ heard' = IF heard.pure
                THEN [heard EXCEPT !.since = Min(@ + 1, Delay)]
                ELSE heard
    /\ Quiet
    /\ UNCHANGED <<cancellationToken, watchedTestFiles, changedTestFiles, resolve,
                   watching, watchersOpen, inputOpen, batch, noted, runPosition, apart>>

\* ChangedFile without debounce.refreshTimeout() while a timer is pending
ChangedFile_NoRefresh ==
    /\ watchersOpen
    /\ \E filePath \in Paths :
          /\ timeout' = IF timeout = -1 THEN Delay ELSE timeout
          /\ IF MapHas(watchedTestFiles, filePath)
             THEN /\ changedTestFiles' = MapSet(changedTestFiles, filePath)
                  /\ UNCHANGED watchedTestFiles
             ELSE IF isTestFile(filePath)
                  THEN /\ changedTestFiles' = MapSet(changedTestFiles, filePath)
                       /\ watchedTestFiles' = MapSet(watchedTestFiles, filePath)
                  ELSE UNCHANGED <<changedTestFiles, watchedTestFiles>>
          /\ heard' = Hears(filePath)
          /\ noted' = Notified(filePath)
    /\ Quiet
    /\ UNCHANGED <<cancellationToken, resolve, watching, watchersOpen, inputOpen,
                   batch, runPosition, apart>>

(* onChangedFile, called by the Watcher of the root path for a path that   *)
(* exists.  A burst of notifications starts with a notification that comes *)
(* Delay or more after the one before it; it is pure while its             *)
(* notifications are for one watched file, it started when watch was       *)
(* waiting with nothing changed and no timer, and nothing else happened.   *)
ChangedFile ==
    /\ watchersOpen
    /\ \E filePath \in Paths :
          /\ timeout' = Delay
          /\ IF MapHas(watchedTestFiles, filePath)
             THEN /\ changedTestFiles' = MapSet(changedTestFiles, filePath)
                  /\ UNCHANGED watchedTestFiles
             ELSE IF isTestFile(filePath)
                  THEN /\ changedTestFiles' = MapSet(changedTestFiles, filePath)
                       /\ watchedTestFiles' = MapSet(watchedTestFiles, filePath)
                  ELSE UNCHANGED <<changedTestFiles, watchedTestFiles>>
          /\ heard' = Hears(filePath)
          /\ noted' = Notified(filePath)
    /\ Quiet
    /\ UNCHANGED <<cancellationToken, resolve, watching, watchersOpen, inputOpen,
                   batch, runPosition, apart>>

\* RemovedFile without this.#changedTestFiles.delete(filePath)
RemovedFile_KeepsChanged ==
    /\ watchersOpen
    /\ \E filePath \in Paths :
          /\ UNCHANGED changedTestFiles
          /\ watchedTestFiles' = MapDelete(watchedTestFiles, filePath)
          /\ noted' = [noted EXCEPT !.since = @ \ {filePath},
                                    !.pending = @ \ {filePath}]
          /\ IF Len(watchedTestFiles') = 0
             THEN /\ timeout' = -1
                  /\ Dispatch(Event("watch:error", 0, 0, ErrorDiagnostics, 0),
                              <<0, 0>>, NoInputs)
             ELSE /\ Quiet
                  /\ UNCHANGED <<timeout, cancellationToken>>
    /\ heard' = NoBurst
    /\ UNCHANGED <<resolve, watching, watchersOpen, inputOpen, batch, runPosition, apart>>

\* onRemovedFile, called by the Watcher of the root path for a path that
\* does not exist: with no watched file left, watch:error is dispatched
RemovedFile ==
    /\ watchersOpen
    /\ \E filePath \in Paths :
          /\ changedTestFiles' = MapDelete(changedTestFiles, filePath)
          /\ watchedTestFiles' = MapDelete(watchedTestFiles, filePath)
          /\ noted' = [noted EXCEPT !.since = @ \ {filePath},
                                    !.pending = @ \ {filePath}]
          /\ IF Len(watchedTestFiles') = 0
             THEN /\ timeout' = -1
                  /\ Dispatch(Event("watch:error", 0, 0, ErrorDiagnostics, 0),
                              <<0, 0>>, NoInputs)
             ELSE /\ Quiet
                  /\ UNCHANGED <<timeout, cancellationToken>>
    /\ heard' = NoBurst
    /\ UNCHANGED <<resolve, watching, watchersOpen, inputOpen, batch, runPosition, apart>>

\* TimerFires with an onResolve that does not clear the changed files
TimerFires_KeepsChanged ==
    /\ timeout = 0
    /\ timeout' = -1
    /\ UNCHANGED changedTestFiles
    /\ ResolveWith(changedTestFiles, cancellationToken)
    /\ heard' = [heard EXCEPT !.yields = IF Yields(changedTestFiles)
                                        THEN Min(@ + 1, MaxBurst) ELSE @]
    /\ noted' = [noted EXCEPT !.since = {}, !.pending = {},
                              !.by = IF Yields(changedTestFiles)
                                     THEN "timer" ELSE @,
                              !.key = IF Yields(changedTestFiles)
                                      THEN FALSE ELSE @]
    /\ Quiet
    /\ UNCHANGED <<cancellationToken, watchedTestFiles, watchersOpen, inputOpen,
                   runPosition, apart>>

\* the callback of the timer: this.#resolve?.(this.#onResolve())
TimerFires ==
    /\ timeout = 0
    /\ timeout' = -1
    /\ changedTestFiles' = << >>
    /\ ResolveWith(changedTestFiles, cancellationToken)
    /\ heard' = [heard EXCEPT !.yields = IF Yields(changedTestFiles)
                                        THEN Min(@ + 1, MaxBurst) ELSE @]
    /\ noted' = [noted EXCEPT !.since = {}, !.pending = {},
                              !.by = IF Yields(changedTestFiles)
                                     THEN "timer" ELSE @,
                              !.key = IF Yields(changedTestFiles)
                                      THEN FALSE ELSE @]
    /\ Quiet
    /\ UNCHANGED <<cancellationToken, watchedTestFiles, watchersOpen, inputOpen,
                   runPosition, apart>>

\* Close without cancellationToken.cancel(reason)
Close_NoCancel(reason) ==
    /\ timeout' = -1
    /\ inputOpen' = FALSE
    /\ watchersOpen' = FALSE
    /\ UNCHANGED cancellationToken
    /\ ResolveWith(<< >>, cancellationToken')
    /\ heard' = NoBurst
    /\ noted' = [noted EXCEPT !.closed = reason]
    /\ Quiet
    /\ UNCHANGED <<watchedTestFiles, changedTestFiles, runPosition, apart>>

\* onClose(reason)
Close(reason) ==
    /\ timeout' = -1
    /\ inputOpen' = FALSE
    /\ watchersOpen' = FALSE
    /\ cancellationToken' = cancel(cancellationToken, reason)
    /\ ResolveWith(<< >>, cancellationToken')
    /\ heard' = NoBurst
    /\ noted' = [noted EXCEPT !.closed = reason]
    /\ Quiet
    /\ UNCHANGED <<watchedTestFiles, changedTestFiles, runPosition, apart>>

\* onInput: Ctrl+C, Ctrl+D, Escape, q or x
InputQuit ==
    /\ inputOpen
    /\ Close("watchClose")

\* onInput: Enter, Space or a
InputRunAll ==
    /\ inputOpen
    /\ timeout' = -1
    /\ IF Len(watchedTestFiles) > 0
       THEN /\ ResolveWith(watchedTestFiles, cancellationToken)
            /\ noted' = [noted EXCEPT !.since = {},
                                      !.by = IF Yields(watchedTestFiles)
                                             THEN "key" ELSE @,
                                      !.key = ~Yields(watchedTestFiles)]
       ELSE /\ UNCHANGED <<resolve, watching, batch, noted>>
    /\ heard' = NoBurst
    /\ Quiet
    /\ UNCHANGED <<cancellationToken, watchedTestFiles, changedTestFiles,
                   watchersOpen, inputOpen, runPosition, apart>>

\* onChangedConfigFile, called by the FileWatcher of the configuration file
ConfigFileChanged ==
    /\ watchersOpen
    /\ Close("configChange")

\* Runner.#run of the batch, with failFast: an event with an error
\* diagnostic is dispatched and CancellationHandler cancels the token
RunFailFast ==
    /\ watching = "yielded"
    /\ resolvedConfig.failFast
    /\ ~cancellationToken.isCancelled
    /\ cancellationToken' = cancel(cancellationToken, "failFast")
    /\ exitCode' = 1
    /\ event' = NoEvent
    /\ UNCHANGED <<handler, result, targetResults, taskResults, memberResults,
                   observed, watchVars, runPosition, apart>>

\* Runner.#run of the batch returns, resetting a token cancelled by
\* failFast, and Runner.#watch asks watch for the next batch
RunReturns ==
    /\ watching = "yielded"
    /\ cancellationToken' =
          IF cancellationToken.reason = "failFast"
          THEN reset(cancellationToken) ELSE cancellationToken
    /\ Loop(cancellationToken')
    /\ batch' = << >>
    /\ noted' = [noted EXCEPT !.by = ""]
    /\ Quiet
    /\ UNCHANGED <<watchedTestFiles, changedTestFiles, timeout, watchersOpen,
                   inputOpen, heard, runPosition, apart>>

\* CliRepeats without cancellationToken.reset()
CliRepeats_NoReset ==
    /\ watching = "returned"
    /\ cancellationToken.reason = "configChange"
    /\ UNCHANGED cancellationToken
    /\ exitCode' = 0
    /\ \E failFast \in BOOLEAN :
          resolvedConfig' = [resolvedConfig EXCEPT !.failFast = failFast]
    /\ watchedTestFiles' = << "a.tst.ts" >>
    /\ changedTestFiles' = << >>
    /\ timeout' = -1
    /\ resolve' = "pending"
    /\ watching' = "waiting"
    /\ watchersOpen' = TRUE
    /\ inputOpen' = TRUE
    /\ batch' = << >>
    /\ heard' = NoBurst
    /\ noted' = NoNotes
    /\ event' = NoEvent
    /\ UNCHANGED <<tasks, pc, targetIndex, taskIndex, stack, handler, result,
                   targetResults, taskResults, memberResults, observed, apart>>

(* Cli.run: watch has returned, so have Runner.#watch, Runner.run and      *)
(* TSTyche.run, and the token's reason is configChange: the loop goes      *)
(* round.  The token and the exit code are reset, the configuration file   *)
(* is read and the configuration resolved again, the test files are        *)
(* selected, and a new TSTyche runs them and watches: the first run has    *)
(* returned and watch is waiting with new watchers and a new input.        *)
CliRepeats ==
    /\ watching = "returned"
    /\ cancellationToken.reason = "configChange"
    /\ cancellationToken' = reset(cancellationToken)
    /\ exitCode' = 0
    /\ \E failFast \in BOOLEAN :
          resolvedConfig' = [resolvedConfig EXCEPT !.failFast = failFast]
    /\ watchedTestFiles' = << "a.tst.ts" >>
    /\ changedTestFiles' = << >>
    /\ timeout' = -1
    /\ resolve' = "pending"
    /\ watching' = "waiting"
    /\ watchersOpen' = TRUE
    /\ inputOpen' = TRUE
    /\ batch' = << >>
    /\ heard' = NoBurst
    /\ noted' = NoNotes
    /\ event' = NoEvent
    /\ UNCHANGED <<tasks, pc, targetIndex, taskIndex, stack, handler, result,
                   targetResults, taskResults, memberResults, observed, apart>>

\* Cli.run: watch has returned and the token's reason is not configChange:
\* the loop ends and Cli.run returns
CliReturns ==
    /\ watching = "returned"
    /\ cancellationToken.reason # "configChange"
    /\ watching' = "exited"
    /\ Quiet
    /\ UNCHANGED <<cancellationToken, watchedTestFiles, changedTestFiles, timeout,
                   resolve, watchersOpen, inputOpen, batch, heard, noted,
                   runPosition, apart>>

WatchNext ==
    \/ Tick
    \/ ChangedFile
    \/ RemovedFile
    \/ TimerFires
    \/ InputQuit
    \/ InputRunAll
    \/ ConfigFileChanged
    \/ RunFailFast
    \/ RunReturns
    \/ CliRepeats
    \/ CliReturns

SpecWatch == WatchInit /\ [][WatchNext]_vars

\* Runner.#run of a batch returns: the tasks of a batch are finitely many
\* and each is run to its end; so does Cli.run when its loop has ended
SpecWatchFair ==
    SpecWatch /\ WF_vars(RunReturns) /\ WF_vars(CliReturns) /\ WF_vars(CliRepeats)

(* The watch loop as time passes: a millisecond passes while a timer is    *)
(* pending, the callback of a timer that is due is called, the run of a    *)
(* batch returns, and so does Cli.run when its loop has ended.  What the   *)
(* watchers and the input report is left to the environment.               *)
SpecWatchLive ==
    SpecWatchFair /\ WF_vars(Tick) /\ WF_vars(TimerFires)

-----------------------------------------------------------------------------
(* Properties of the run pipeline *)

\* the tree of the task the history is about
ObservedTree == Fixtures[tasks[observed.task].file]

\* the members that enclose member n
RECURSIVE Ancestors(_, _)
Ancestors(tree, n) ==
    IF tree[n].parent = 0 THEN {}
    ELSE {tree[n].parent} \cup Ancestors(tree, tree[n].parent)

\* a call of #visitDescribe, #visitTest or #visitAssertion for member n has
\* published its start event and has not returned
Pending(n) ==
    \E i \in 1..Len(stack) :
        /\ stack[i].member = n
        /\ stack[i].op \in {"describe", "describeEnd", "test", "testEnd", "expect"}

\* the terminal events of a brand
TerminalsOf(brand) ==
    CASE brand = "describe" -> {"describe:end"}
      [] brand = "test" -> TestTerminal
      [] brand = "expect" -> ExpectTerminal

(* C1, as amended: whenever an event is published for a member, every      *)
(* describe and test that encloses the member has published its start      *)
(* event and no terminal event yet, so a describe's or test's start comes  *)
(* before every event of its descendants and its terminal event after all  *)
(* of them; an assertion that encloses the member has published no event   *)
(* yet, so the events of nested assertions all come before the expect:start *)
(* of the outer assertion.                                                 *)
C1_NestingOrder ==
    event.member # 0 =>
        \A a \in Ancestors(ObservedTree, event.member) :
            /\ observed.term[a] = << >>
            /\ observed.start[a] = IF ObservedTree[a].brand = "expect" THEN 0 ELSE 1

(* C1 as stated: also the expect:start of an outer assertion is published  *)
(* before every event of the assertions nested in it.                      *)
C1_AsStated ==
    event.member # 0 =>
        \A a \in Ancestors(ObservedTree, event.member) :
            /\ observed.term[a] = << >>
            /\ observed.start[a] = 1

\* the nested assertion of describe { test { expect(expect) } } got its
\* terminal event
C1_Witness ==
    /\ observed.task # 0
    /\ tasks[observed.task].file = 6
    /\ event.member = 4
    /\ event.name \in ExpectTerminal
    /\ observed.start[1] = 1 /\ observed.start[2] = 1 /\ observed.start[3] = 0

(* C2: a member has at most one start event; it has exactly one terminal   *)
(* event, of its brand, once its start is published and its visit has      *)
(* returned, and none before.                                              *)
C2_OneTerminal ==
    observed.task # 0 =>
        \A n \in 1..Len(ObservedTree) :
            /\ observed.start[n] <= 1
            /\ Len(observed.term[n]) =
                  IF observed.start[n] = 1 /\ ~Pending(n) THEN 1 ELSE 0
            /\ \A i \in 1..Len(observed.term[n]) :
                  observed.term[n][i] \in TerminalsOf(ObservedTree[n].brand)

\* test { expect; expect } with failFast: the first assertion fails, the
\* second is never visited, and the test still gets its terminal event
C2_Witness ==
    /\ observed.task # 0
    /\ tasks[observed.task].file = 7
    /\ cancellationToken.isCancelled
    /\ observed.term[2] = << "expect:fail" >>
    /\ observed.start[3] = 0
    /\ observed.term[1] = << "test:fail" >>

\* failFast, two targets and two files, and the first assertion of the run,
\* in the first file on the first target, failed
C3_FirstAssertionFailed ==
    /\ resolvedConfig.failFast
    /\ resolvedConfig.target = 2
    /\ Len(tasks) = 2
    /\ observed.firstExpect.where = <<1, 1>>
    /\ observed.firstExpect.name \in {"expect:fail", "expect:error"}

(* C3, as amended: with failFast, two targets and two files, once the first *)
(* assertion of the first file failed on the first target, no event is     *)
(* published for the second file on either target and no task event for    *)
(* the second target; the second target still gets its target:start and    *)
(* its target:end, and the store:adds and store:error of the store while   *)
(* its compiler is loaded.                                                 *)
C3_FailFastStopsTasks ==
    C3_FirstAssertionFailed =>
        /\ \A p \in observed.published :
              /\ p[2] # 2
              /\ p[1] = 2 =>
                    p[3] \in {"target:start", "store:adds", "store:error", "target:end"}
        /\ pc = "done" =>
              /\ <<2, 0, "target:start">> \in observed.published
              /\ <<2, 0, "target:end">> \in observed.published

(* C3 as stated: no event at all for the second file and no event at all   *)
(* for the second target, target:start and target:end included.            *)
C3_AsStated ==
    C3_FirstAssertionFailed =>
        \A p \in observed.published : p[2] # 2 /\ p[1] # 2

\* the run is over after the first assertion failed
C3_Witness ==
    /\ C3_FirstAssertionFailed
    /\ pc = "done"
    /\ <<1, 1, "task:end">> \in observed.published

-----------------------------------------------------------------------------
(* Properties of the traversal of a file *)

\* member.flags of the members of the task the history is about
ObservedFlags == tasks[observed.task].flags

\* the members enclosed by member n
Descendants(tree, n) == {m \in 1..Len(tree) : n \in Ancestors(tree, m)}

\* the later siblings of member n
LaterSiblings(tree, n) ==
    {m \in 1..Len(tree) : m > n /\ tree[m].parent = tree[n].parent}

\* the later siblings of member n and of the members that enclose it
LaterSiblingsUp(tree, n) ==
    UNION {LaterSiblings(tree, a) : a \in Ancestors(tree, n) \cup {n}}

\* no event was published for member n
Untouched(n) ==
    /\ observed.start[n] = 0
    /\ observed.term[n] = << >>
    /\ observed.errors[n] = 0

\* the loop of visit over the siblings of member n breaks at n or before it
\* on a validation error
Blocked(tree, n) ==
    \E s \in 1..Len(tree) :
        /\ tree[s].parent = tree[n].parent
        /\ s <= n
        /\ Len(validate(tree, s)) > 0

\* TaskRunner.#run returned from the visit of the tree, not ahead of it
Visited ==
    /\ pc = "taskEnd"
    /\ observed.inputs.fault = ""
    /\ observed.errors[0] = 0

\* #visitDescribe published task:error for describe d
HadDiagnostics(d) ==
    /\ ObservedTree[d].brand = "describe"
    /\ observed.start[d] = 1
    /\ observed.errors[d] > 0

(* C4, as amended: a describe that is not skipped, pruned or todo and has  *)
(* diagnostics gets one task:error, none of its descendants gets an event, *)
(* and it still gets its describe:end; the traversal goes on: unless the   *)
(* run is cancelled, every later sibling of the describe and of the        *)
(* members that enclose it is visited, up to a sibling that fails the      *)
(* validation.                                                             *)
C4_GroupDiagnostics ==
    observed.task # 0 =>
        \A d \in 1..Len(ObservedTree) :
            HadDiagnostics(d) =>
                /\ observed.errors[d] = 1
                /\ \A n \in Descendants(ObservedTree, d) : Untouched(n)
                /\ ~Pending(d) => observed.term[d] = << "describe:end" >>
                /\ pc = "taskEnd" /\ ~cancellationToken.isCancelled =>
                      \A n \in LaterSiblingsUp(ObservedTree, d) :
                          observed.start[n] = 1 \/ Blocked(ObservedTree, n)

(* C4 as stated: after the task:error of the describe no start or terminal *)
(* event is published for a later sibling of the describe or of the        *)
(* members that enclose it.                                                *)
C4_AsStated ==
    observed.task # 0 =>
        \A d \in 1..Len(ObservedTree) :
            HadDiagnostics(d) =>
                /\ observed.errors[d] = 1
                /\ \A n \in Descendants(ObservedTree, d) : Untouched(n)
                /\ \A n \in LaterSiblingsUp(ObservedTree, d) :
                      observed.start[n] = 0 /\ observed.term[n] = << >>

\* describe { test }; test: the describe had diagnostics, its test was not
\* visited, and the test after it got its terminal event
C4_Witness ==
    /\ observed.task # 0
    /\ tasks[observed.task].file = 10
    /\ HadDiagnostics(1)
    /\ observed.term[1] = << "describe:end" >>
    /\ observed.start[2] = 0
    /\ observed.term[3] # << >>

\* a describe with an assertion as its direct child
InvalidGroup(tree, g) ==
    /\ tree[g].brand = "describe"
    /\ \E c \in 1..Len(tree) : tree[c].parent = g /\ tree[c].brand = "expect"

\* the loop of visit gets to member n when the run is not cancelled
Reached(tree, n) ==
    /\ Visited
    /\ ~cancellationToken.isCancelled
    /\ \A s \in 1..Len(tree) :
          tree[s].parent = tree[n].parent /\ s < n => Len(validate(tree, s)) = 0
    /\ tree[n].parent # 0 =>
          /\ observed.start[tree[n].parent] = 1
          /\ observed.errors[tree[n].parent] = 0

(* C5, as amended: a describe with an assertion as its direct child gets   *)
(* no start or terminal event and at most one task:error, exactly one when *)
(* the walker gets to it; no event is published for its descendants and    *)
(* for its later siblings.  The members visited before it keep their       *)
(* events.                                                                 *)
C5_ValidationError ==
    observed.task # 0 =>
        \A g \in 1..Len(ObservedTree) :
            InvalidGroup(ObservedTree, g) =>
                /\ observed.start[g] = 0 /\ observed.term[g] = << >>
                /\ observed.errors[g] <= 1
                /\ Reached(ObservedTree, g) => observed.errors[g] = 1
                /\ \A n \in Descendants(ObservedTree, g) : Untouched(n)
                /\ \A n \in LaterSiblings(ObservedTree, g) : Untouched(n)

(* C5 as stated: in a file with such a describe no event is published for  *)
(* any test or assertion.                                                  *)
C5_AsStated ==
    observed.task # 0 =>
        ((\E g \in 1..Len(ObservedTree) : InvalidGroup(ObservedTree, g)) =>
            \A n \in 1..Len(ObservedTree) :
                ObservedTree[n].brand \in {"test", "expect"} =>
                    observed.start[n] = 0 /\ observed.term[n] = << >>)

\* test; describe { expect }; test: the first test got its events, the
\* describe its task:error, and the last test nothing
C5_Witness ==
    /\ observed.task # 0
    /\ tasks[observed.task].file = 8
    /\ pc = "taskEnd"
    /\ observed.term[1] # << >>
    /\ observed.errors[2] = 1
    /\ Untouched(4)

\* the members of the file, when they are three sibling tests
Cases == {c \in 1..Len(ObservedTree) : ObservedTree[c].parent = 0}

\* the assertions below member n
AssertionsBelow(n) ==
    {e \in Descendants(ObservedTree, n) : ObservedTree[e].brand = "expect"}

\* a file of three sibling tests, none with the skip or the todo flag or an
\* error from diagnostics, exactly one with the only flag, no filter and no
\* position, and the visit of the file has returned without a cancellation
C6_Given ==
    /\ observed.task # 0
    /\ Visited
    /\ ~cancellationToken.isCancelled
    /\ Cardinality(Cases) = 3
    /\ \A c \in Cases :
          /\ ObservedTree[c].brand = "test"
          /\ ~HasBit(ObservedFlags[c], FlagSkip)
          /\ ~HasBit(ObservedFlags[c], FlagTodo)
          /\ observed.term[c] # << "test:error" >>
    /\ Cardinality({c \in Cases : HasBit(ObservedFlags[c], FlagOnly)}) = 1
    /\ ~resolvedConfig.only.set
    /\ ~resolvedConfig.skip.set
    /\ tasks[observed.task].position = 0

(* C6, as amended: in such a file, when the run is not cancelled, the      *)
(* test with the only flag ends in test:pass or test:fail and the other    *)
(* two in test:skip, and every assertion below the other two that does not *)
(* have the only flag itself ends in expect:skip.                          *)
C6_OnlyPruning ==
    C6_Given =>
        \A c \in Cases :
            IF HasBit(ObservedFlags[c], FlagOnly)
            THEN observed.term[c] \in {<< "test:pass" >>, << "test:fail" >>}
            ELSE /\ observed.term[c] = << "test:skip" >>
                 /\ \A e \in AssertionsBelow(c) :
                       \/ HasBit(ObservedFlags[e], FlagOnly)
                       \/ observed.term[e] = << "expect:skip" >>

(* C6 as stated: the test with the only flag ends in test:pass or          *)
(* test:fail, the other two in test:skip, and every assertion below the    *)
(* other two in expect:skip, whatever flags the assertion has.             *)
C6_AsStated ==
    C6_Given =>
        \A c \in Cases :
            IF HasBit(ObservedFlags[c], FlagOnly)
            THEN observed.term[c] \in {<< "test:pass" >>, << "test:fail" >>}
            ELSE /\ observed.term[c] = << "test:skip" >>
                 /\ \A e \in AssertionsBelow(c) :
                       observed.term[e] = << "expect:skip" >>

\* test { expect }; test; test with the only flag on the last test
C6_Witness ==
    /\ C6_Given
    /\ HasBit(ObservedFlags[4], FlagOnly)
    /\ observed.term[2] = << "expect:skip" >>
    /\ observed.term[4] = << "test:pass" >>

\* the fail flag of the assertion, or of a test or describe that encloses it
FailOf(tree, flags, n) ==
    \E a \in {n} \cup {x \in Ancestors(tree, n) : tree[x].brand # "expect"} :
        HasBit(flags[a], FlagFail)

(* C7: an assertion that is not skipped, has no diagnostics and gets a     *)
(* match result, with truth = (isNot ? !isMatch : isMatch) and Fail its    *)
(* own fail flag or that of an enclosing test or describe: truth and Fail  *)
(* is expect:error, truth and not Fail expect:pass, not truth and Fail     *)
(* expect:pass, not truth and not Fail expect:fail with the explanation.   *)
C7_FailInversion ==
    /\ event.name \in ExpectTerminal
    /\ observed.inputs.matchResult \in {"match", "mismatch"}
    /\ ~observed.inputs.diagnostics
    => LET truth == IF observed.inputs.isNot
                    THEN observed.inputs.matchResult = "mismatch"
                    ELSE observed.inputs.matchResult = "match"
           fail == FailOf(ObservedTree, ObservedFlags, event.member)
       IN  /\ event.name = CASE truth /\ fail -> "expect:error"
                             [] truth /\ ~fail -> "expect:pass"
                             [] ~truth /\ fail -> "expect:pass"
                             [] ~truth /\ ~fail -> "expect:fail"
           /\ event.name = "expect:fail" => event.diagnostics # << >>

\* an assertion below a test with the fail flag did not hold and passed
C7_Witness ==
    /\ event.name = "expect:pass"
    /\ observed.inputs.matchResult = "mismatch"
    /\ ~observed.inputs.isNot
    /\ ~HasBit(ObservedFlags[event.member], FlagFail)
    /\ FailOf(ObservedTree, ObservedFlags, event.member)

\* the todo flag of the test, or of a describe that encloses it
TodoOf(tree, flags, n) ==
    \E a \in {n} \cup Ancestors(tree, n) : HasBit(flags[a], FlagTodo)

(* C8: a test with the todo flag, its own or that of an enclosing          *)
(* describe, gets test:start and then test:todo, whatever other flags and  *)
(* diagnostics it has, and no event is published for a member below it.    *)
C8_TodoIsolation ==
    observed.task # 0 =>
        \A c \in 1..Len(ObservedTree) :
            /\ ObservedTree[c].brand = "test"
            /\ observed.start[c] = 1
            /\ TodoOf(ObservedTree, ObservedFlags, c)
            => /\ observed.term[c] = IF Pending(c) THEN << >> ELSE << "test:todo" >>
               /\ observed.errors[c] = 0
               /\ \A n \in Descendants(ObservedTree, c) : Untouched(n)

\* a test with the todo and the skip flag and with an assertion below it
C8_Witness ==
    /\ observed.task # 0
    /\ \E c \in 1..Len(ObservedTree) :
          /\ ObservedTree[c].brand = "test"
          /\ HasBit(ObservedFlags[c], FlagTodo)
          /\ HasBit(ObservedFlags[c], FlagSkip)
          /\ AssertionsBelow(c) # {}
          /\ observed.term[c] = << "test:todo" >>
    /\ pc = "taskEnd"

-----------------------------------------------------------------------------
(* Properties of the counters *)

\* the counters that the terminal events of a task's assertions amount to
ExpectTally(tally) ==
    [failed |-> tally["expect:fail"] + tally["expect:error"],
     passed |-> tally["expect:pass"],
     skipped |-> tally["expect:skip"],
     todo |-> 0]

\* the counters that the terminal events of a task's tests amount to
TestTally(tally) ==
    [failed |-> tally["test:fail"] + tally["test:error"],
     passed |-> tally["test:pass"],
     skipped |-> tally["test:skip"],
     todo |-> tally["test:todo"]]

\* the number of terminal events of the given names in a tally
RECURSIVE EventsIn(_, _)
EventsIn(tally, names) ==
    IF names = {} THEN 0
    ELSE LET name == CHOOSE x \in names : TRUE
         IN  tally[name] + EventsIn(tally, names \ {name})

\* the sum of a bucket of a counter over the first n task results
RECURSIVE SumOverTasks(_, _, _)
SumOverTasks(counter, bucket, n) ==
    IF n = 0 THEN 0
    ELSE taskResults[n][counter][bucket] + SumOverTasks(counter, bucket, n - 1)

Buckets == {"failed", "passed", "skipped", "todo"}

(* C9: at every point of a run each bucket of expectCount and testCount of *)
(* every task result equals the number of the terminal events published    *)
(* for the task so far, the error events counted as failed; the total is   *)
(* the number of all of them; and each bucket of the run's result is the   *)
(* sum of the bucket over the tasks started in the run.                    *)
C9_CountConsistency ==
    /\ Len(taskResults) = Len(observed.tally)
    /\ \A i \in 1..Len(taskResults) :
          /\ taskResults[i].expectCount = ExpectTally(observed.tally[i])
          /\ taskResults[i].testCount = TestTally(observed.tally[i])
          /\ Total(taskResults[i].expectCount) =
                EventsIn(observed.tally[i], ExpectTerminal)
          /\ Total(taskResults[i].testCount) =
                EventsIn(observed.tally[i], TestTerminal)
    /\ \A bucket \in Buckets :
          /\ result.expectCount[bucket] =
                SumOverTasks("expectCount", bucket, Len(taskResults))
          /\ result.testCount[bucket] =
                SumOverTasks("testCount", bucket, Len(taskResults))

\* three tests, two passed and one failed on its assertion, counted at the
\* end of the run
C9_Witness ==
    /\ pc = "done"
    /\ result.testCount = [failed |-> 1, passed |-> 2, skipped |-> 0, todo |-> 0]
    /\ result.expectCount = [failed |-> 1, passed |-> 0, skipped |-> 0, todo |-> 0]
    /\ Total(result.testCount) = 3

-----------------------------------------------------------------------------
(* Properties of the watch loop *)

(* C10: while a burst of change notifications for one watched file lasts,  *)
(* each less than Delay after the one before it and the first one heard    *)
(* while watch was waiting, no batch is yielded as long as the timer is    *)
(* pending, and the file is the one that is pending; once the timer has    *)
(* fired exactly one batch is yielded, Delay or more has passed since the  *)
(* last notification, and the batch is the task of the file.               *)
C10_Debounce ==
    heard.pure =>
        /\ heard.yields = IF timeout = -1 THEN 1 ELSE 0
        /\ timeout >= 0 =>
              /\ watching = "waiting"
              /\ changedTestFiles = << heard.file >>
              /\ timeout = Delay - heard.since
        /\ heard.yields = 1 =>
              /\ heard.since = Delay
              /\ watching = "yielded" => batch = << heard.file >>

\* a burst of three notifications for a.tst.ts was yielded as one batch
C10_Witness ==
    /\ heard.pure
    /\ heard.count = 3
    /\ heard.file = "a.tst.ts"
    /\ heard.yields = 1
    /\ batch = << "a.tst.ts" >>
    /\ watching = "yielded"

\* the keys of a map of tasks, as a set
Keys(map) == {map[i] : i \in 1..Len(map)}

\* a step in which watch yields a batch to Runner.#watch
YieldStep == watching # "yielded" /\ watching' = "yielded"

(* C11, as amended.  A batch yielded when the timer fires holds exactly    *)
(* the tasks of the files notified since the timer last fired, whether or  *)
(* not that firing was consumed, and not removed since, each once; a batch *)
(* yielded by the run-all key holds the tasks of all the watched files,    *)
(* each once, and the key leaves the changed files as they are.            *)
C11_Batches ==
    [][/\ YieldStep =>
             /\ Len(batch') = Cardinality(Keys(batch'))
             /\ noted'.by = "timer" =>
                   /\ Keys(batch') = noted.pending
                   /\ changedTestFiles' = << >>
             /\ noted'.by = "key" =>
                   /\ batch' = watchedTestFiles
                   /\ changedTestFiles' = changedTestFiles
       /\ Keys(changedTestFiles') = noted'.pending]_vars

\* the timer yields a batch of two files, one of them given its task by
\* its notification
C11_Witness ==
    /\ watching = "yielded"
    /\ noted.by = "timer"
    /\ Len(batch) = 2
    /\ noted.closed = ""

(* C11, as stated.  Every batch yielded holds exactly the tasks of the     *)
(* files notified since the wait was last resolved by the timer or by the  *)
(* run-all key.                                                            *)
C11_AsStated ==
    [][YieldStep => Keys(batch') = noted.since]_vars

\* everything onClose closes is closed
Closed == timeout = -1 /\ ~watchersOpen /\ ~inputOpen

C14_ClosedAtEnd ==
    watching \in {"returned", "exited"} => Closed

\* the names of the events published so far
PublishedNames == {p[3] : p \in observed.published}

\* every test and assertion of the run was skipped or is todo
OnlySkippedOrTodo ==
    \A k \in 1..Len(observed.tally) :
       \A name \in TestTerminal \cup ExpectTerminal :
          observed.tally[k][name] > 0 =>
             name \in {"test:skip", "test:todo", "expect:skip"}

DropsDiagnostics ==
    /\ pc = "visit"
    /\ stack # << >>
    /\ Top.op \in {"describe", "test", "expect"}
    /\ observed'.inputs.diagnostics
    /\ \/ IsSkipped(observed'.inputs.runMode, taskIndex)
       \/ Top.op # "expect" /\ HasBit(observed'.inputs.runMode, FlagTodo)

(* C16.  When the member the worker handles has diagnostics and its run    *)
(* mode makes it skipped, or todo for a describe or a test, the step       *)
(* publishes no event with diagnostics: nothing for a describe or a        *)
(* skipped test, test:todo for a test that is todo and expect:skip for an  *)
(* assertion; no error is counted for the member, and the status of the    *)
(* task and the exit code stay as they are.                                *)
C16_SkippedDiagnostics ==
    [][DropsDiagnostics =>
          /\ event'.name = CASE Top.op = "expect" -> "expect:skip"
                              [] Top.op = "test"
                                 /\ HasBit(observed'.inputs.runMode, FlagTodo)
                                 -> "test:todo"
                              [] OTHER -> ""
          /\ event'.diagnostics = << >>
          /\ observed'.errors = observed.errors
          /\ exitCode' = exitCode
          /\ Len(taskResults') = Len(taskResults)
          /\ taskResults'[Len(taskResults)].status =
                taskResults[Len(taskResults)].status]_vars

\* an assertion with diagnostics was skipped, and nothing failed so far
C16_Witness ==
    /\ event.name = "expect:skip"
    /\ observed.inputs.diagnostics
    /\ exitCode = 0

(* C17.  When the file of a task has syntactic diagnostics, task:error     *)
(* with the diagnostics comes right after task:start and task:end right    *)
(* after task:error: it is the one task:error of the task, no member gets  *)
(* an event, the task is failed, task:end counts the file as failed, and   *)
(* the exit code is 1.                                                     *)
C17_SyntaxErrors ==
    [][/\ observed'.inputs.fault = "syntactic" =>
             /\ event.name = "task:start"
             /\ event'.name = "task:error"
             /\ HasErrorDiagnostic(event')
             /\ event'.result = Len(taskResults)
             /\ pc' = "taskEnd"
       /\ observed.inputs.fault = "syntactic" =>
             /\ event'.name = "task:end"
             /\ event'.result = event.result
             /\ observed'.errors[0] = 1
             /\ \A n \in 1..Len(ObservedTree) :
                   /\ observed'.start[n] = 0
                   /\ observed'.term[n] = << >>
                   /\ observed'.errors[n] = 0
             /\ taskResults'[event.result].status = "failed"
             /\ result'.fileCount.failed = result.fileCount.failed + 1
             /\ result'.fileCount.passed = result.fileCount.passed
             /\ exitCode' = 1]_vars

\* the task:error of a file with syntactic diagnostics, after a file that
\* passed
C17_Witness ==
    /\ observed.inputs.fault = "syntactic"
    /\ event.name = "task:error"
    /\ taskResults[event.result].status = "failed"
    /\ result.fileCount.passed = 1
    /\ exitCode = 1

\* the calls since the last call of reset
RECURSIVE SinceReset(_)
SinceReset(log) ==
    IF log = << >> THEN << >>
    ELSE IF log[Len(log)] = "reset" THEN << >>
    ELSE Append(SinceReset(SubSeq(log, 1, Len(log) - 1)), log[Len(log)])

(* C18.  After any calls of cancel and reset, the token is cancelled       *)
(* exactly when cancel was called since the last reset, and its reason is  *)
(* the reason of the first of these calls; after reset, and before the     *)
(* first call, it is not cancelled and has no reason.                      *)
C18_Token ==
    LET since == SinceReset(calls)
    IN  /\ cancellationToken.isCancelled = (since # << >>)
        /\ cancellationToken.reason =
              IF since # << >> THEN Head(since) ELSE "undefined"

\* cancel, reset, and two calls of cancel with different reasons
C18_Witness ==
    /\ Len(calls) = 4
    /\ calls[2] = "reset"
    /\ calls[3] = "failFast"
    /\ calls[4] = "watchClose"
    /\ calls[1] \in Reasons
    /\ cancellationToken.reason = "failFast"

(* C19.  A run resets a token whose reason is failFast before it returns   *)
(* and leaves a token with another reason as it is, and the run of every   *)
(* batch that watch yields starts with a token that is not cancelled.      *)
C19_RunsStartClear ==
    [][/\ YieldStep => ~cancellationToken'.isCancelled
       /\ watching = "yielded" /\ watching' # "yielded" =>
             cancellationToken' =
                IF cancellationToken.reason = "failFast"
                THEN NewCancellationToken
                ELSE cancellationToken]_vars

\* the elements of a sequence
Range(seq) == {seq[i] : i \in 1..Len(seq)}

\* x comes before y in a sequence that holds both
Before(seq, x, y) ==
    \E i, j \in 1..Len(seq) : i < j /\ seq[i] = x /\ seq[j] = y

(* C20.  dispatch calls handleEvent of every registered handler once, in   *)
(* the order of registration, whichever instance registered it: a handler  *)
(* that is added comes after all the registered ones, a handler that is    *)
(* registered already keeps its place and is not called twice, and the     *)
(* removal of a handler leaves the order of the others as it is.           *)
C20_DispatchOrder ==
    [][/\ Len(emitter'.handlers) = Cardinality(Range(emitter'.handlers))
       /\ \A g, h \in Range(emitter.handlers) \cap Range(emitter'.handlers) :
             Before(emitter.handlers, g, h) => Before(emitter'.handlers, g, h)
       /\ \A g \in Range(emitter.handlers),
             h \in Range(emitter'.handlers) \ Range(emitter.handlers) :
             Before(emitter'.handlers, g, h)
       /\ emitter'.invoked # emitter.invoked =>
             /\ emitter'.invoked = emitter.handlers
             /\ emitter'.handlers = emitter.handlers]_vars

\* a dispatch has called the three handlers, which two instances
\* registered, one of them twice
C20_Witness ==
    /\ Len(emitter.invoked) = 3
    /\ emitter.invoked = emitter.handlers
    /\ emitter.scopeHandlers["cli"] # {}
    /\ emitter.scopeHandlers["runner"] # {}
    /\ emitter.scopeHandlers["cli"] \cap emitter.scopeHandlers["runner"] # {}

-----------------------------------------------------------------------------
(* Properties of the cancellation of a run *)

\* the loop of visit has got to member n and its call has not returned
Entered(n) ==
    \E i \in 1..Len(stack) : stack[i].op # "visit" /\ stack[i].member = n

\* the <<target, task>> pairs of the published events of the given name
PublishedAt(name) == {<<p[1], p[2]>> : p \in {q \in observed.published : q[3] = name}}

(* C21: the token is looked at only where the loop of visit gets to a      *)
(* member and where TaskRunner.run is entered.  In a step taken with the   *)
(* token cancelled, an event is published for a member only if the loop    *)
(* had got to the member before, and nothing is published where            *)
(* TaskRunner.run is entered for a task, so the members and the tasks not  *)
(* yet started get no event at all, no skip event either; when task:end is *)
(* published every member that got its start event has its terminal event, *)
(* and when the run is over every task:start has its task:end.             *)
C21_Cancellation ==
    [][/\ cancellationToken.isCancelled =>
             /\ event'.member # 0 => Entered(event'.member)
             /\ pc = "tasks" =>
                   /\ event' = NoEvent
                   /\ observed'.published = observed.published
       /\ event'.name = "task:end" =>
             \A n \in 1..Len(ObservedTree) :
                 observed.start[n] = 1 => Len(observed.term[n]) = 1
       /\ pc' = "done" => PublishedAt("task:start")' = PublishedAt("task:end")'
      ]_vars

\* test { expect; expect } and a second file with failFast: the first
\* assertion failed, the second was never started, the test and the task
\* got their terminal events, and the second file got no event
C21_Witness ==
    /\ pc = "runEnd"
    /\ cancellationToken.isCancelled
    /\ Len(tasks) = 2
    /\ tasks[1].file = 7
    /\ observed.task = 1
    /\ observed.term[2] = << "expect:fail" >>
    /\ Untouched(3)
    /\ observed.term[1] = << "test:fail" >>
    /\ <<1, 1, "task:end">> \in observed.published
    /\ \A p \in observed.published : p[2] # 2

-----------------------------------------------------------------------------
(* Properties of the order of the events of a run *)

\* where a sequence of run, target and task events has got to: the phase,
\* the target last started and the task last started in it
Position(phase, target, task) == [phase |-> phase, target |-> target, task |-> task]

\* the position after event p at position s; "bad" when p is out of order
After(s, p) ==
    CASE s.phase = "idle" /\ p = <<0, 0, "run:start">> ->
            Position("run", 0, 0)
      [] s.phase = "run" /\ p = <<s.target + 1, 0, "target:start">>
                         /\ s.target + 1 \in Targets ->
            Position("target", s.target + 1, 0)
      [] s.phase = "target" /\ p[1] = s.target /\ p[3] = "task:start"
                            /\ p[2] > s.task /\ p[2] \in 1..Len(tasks) ->
            Position("task", s.target, p[2])
      [] s.phase = "task" /\ p = <<s.target, s.task, "task:end">> ->
            Position("target", s.target, s.task)
      [] s.phase = "target" /\ p = <<s.target, 0, "target:end">> ->
            Position("run", s.target, 0)
      [] s.phase = "run" /\ p = <<0, 0, "run:end">>
                         /\ s.target = resolvedConfig.target ->
            Position("over", s.target, 0)
      [] OTHER -> Position("bad", 0, 0)

RECURSIVE PositionOf(_)
PositionOf(log) ==
    IF log = << >> THEN Position("idle", 0, 0)
    ELSE After(PositionOf(SubSeq(log, 1, Len(log) - 1)), log[Len(log)])

(* C22: the run, target and task events of a run come in this order:       *)
(* run:start first; for each configured target in order one target:start,  *)
(* then the task:start and task:end pairs of its tasks in task order, then *)
(* one target:end; run:end last, after the target:end of the last target.  *)
(* Every event of a target or of a task lies between run:start and         *)
(* run:end, and a run that is over had target:start and target:end for     *)
(* every target, also when the token was cancelled or a compiler could not *)
(* be loaded.                                                              *)
C22_EventOrder ==
    /\ PositionOf(observed.log).phase # "bad"
    /\ \A p \in observed.published :
          p[1] # 0 => PositionOf(observed.log).phase \in {"target", "task", "run", "over"}
    /\ observed.log # << >> => observed.log[1] = <<0, 0, "run:start">>
    /\ pc = "done" /\ observed.log # << >> =>
          /\ PositionOf(observed.log).phase = "over"
          /\ \A t \in Targets :
                /\ <<t, 0, "target:start">> \in observed.published
                /\ <<t, 0, "target:end">> \in observed.published

\* failFast, two targets and two files: the first file failed on the first
\* target and cancelled the token, the compiler of the second target could
\* not be loaded, and the run is over
C22_Witness ==
    /\ pc = "done"
    /\ resolvedConfig.failFast
    /\ observed.log =
          << <<0, 0, "run:start">>, <<1, 0, "target:start">>,
             <<1, 1, "task:start">>, <<1, 1, "task:end">>, <<1, 0, "target:end">>,
             <<2, 0, "target:start">>, <<2, 0, "target:end">>, <<0, 0, "run:end">> >>
    /\ Len(tasks) = 2
    /\ <<2, 0, "store:error">> \in observed.published
    /\ observed.firstExpect.name = "expect:fail"

-----------------------------------------------------------------------------
(* Properties of a target whose compiler cannot be loaded *)

\* the events of a target that are not events of its tasks
TargetLevel == {"target:start", "store:adds", "store:error", "target:end"}

\* the handler of failFast has cancelled the token in this run: an event
\* with an error diagnostic was dispatched
WasCancelled == resolvedConfig.failFast /\ observed.errorSince

\* every task got task:start and task:end on target t
RanAllTasks(t) ==
    \A k \in 1..Len(tasks) :
        /\ <<t, k, "task:start">> \in observed.published
        /\ <<t, k, "task:end">> \in observed.published

\* no event of a task was published on target t
RanNoTask(t) ==
    \A p \in observed.published : p[1] = t => p[2] = 0 /\ p[3] \in TargetLevel

(* C23, as amended: when the load of a target's compiler returns undefined, *)
(* only target:start, store:adds, store:error and target:end are published *)
(* for the target; every target still gets target:start and target:end in  *)
(* order; a later target whose compiler loads runs all its tasks as long   *)
(* as the token is not cancelled; with failFast the store:error of the     *)
(* failed load cancels the token, and then no task of a later target is    *)
(* started.                                                                *)
C23_NoCompiler ==
    /\ \A t \in observed.unloaded : RanNoTask(t)
    /\ pc \notin {"runStart", "done"} => (cancellationToken.isCancelled <=> WasCancelled)
    /\ pc = "done" /\ observed.log # << >> =>
          /\ PositionOf(observed.log).phase = "over"
          /\ \A t \in Targets \ observed.unloaded : ~WasCancelled => RanAllTasks(t)
    /\ \A t \in observed.unloaded :
          resolvedConfig.failFast /\ <<t, 0, "store:error">> \in observed.published =>
              \A later \in Targets : later > t => RanNoTask(later)

(* C23 as stated: whenever the load of a target's compiler returned        *)
(* undefined, every later target whose compiler loads runs all its tasks.  *)
C23_AsStated ==
    pc = "done" =>
        \A t \in observed.unloaded :
            /\ RanNoTask(t)
            /\ \A later \in Targets \ observed.unloaded : later > t => RanAllTasks(later)

\* two targets and two files without failFast: the compiler of the first
\* target could not be loaded, the second target ran both files
C23_Witness ==
    /\ pc = "done"
    /\ observed.unloaded = {1}
    /\ <<1, 0, "store:error">> \in observed.published
    /\ resolvedConfig.target = 2
    /\ Len(tasks) = 2
    /\ RanAllTasks(2)

-----------------------------------------------------------------------------
(* Properties of the resolved run mode *)

\* the calls of #visitDescribe, #visitTest and #visitAssertion that have
\* resolved the run mode of their member
ResolvedOps == {"describeEnd", "testEnd", "expect"}

\* the member the position of the task selects (none: outside the tree)
Selected == tasks[observed.task].position

\* member n has the skip flag or its name matches the skip filter
LocalSkip(n) ==
    \/ HasBit(ObservedFlags[n], FlagSkip)
    \/ (resolvedConfig.skip.set /\ NameIncludes(resolvedConfig.skip, observed.task, n))

\* the run mode has Only, and has Skip only from member n or from a member
\* between n and the selected member
OnlyNoInheritedSkip(mode, n) ==
    /\ HasBit(mode, FlagOnly)
    /\ HasBit(mode, FlagSkip) =>
          \E a \in (Ancestors(ObservedTree, n) \cup {n})
                      \cap Descendants(ObservedTree, Selected) : LocalSkip(a)

(* C24 as stated: the resolved mode of the member the position selects has *)
(* Only and not Skip, the member gets no test:skip and no expect:skip, and *)
(* the resolved mode of every member below it has Only and no Skip that    *)
(* comes from the selected member or from above it.                        *)
C24_Position ==
    observed.task # 0 /\ Selected \in 1..Len(ObservedTree) =>
        /\ \A i \in 1..Len(stack) :
              stack[i].op \in ResolvedOps =>
                  /\ stack[i].member = Selected =>
                        /\ HasBit(stack[i].runMode, FlagOnly)
                        /\ ~HasBit(stack[i].runMode, FlagSkip)
                  /\ stack[i].member \in Descendants(ObservedTree, Selected) =>
                        OnlyNoInheritedSkip(stack[i].runMode, stack[i].member)
        /\ \A i \in 1..Len(observed.term[Selected]) :
              observed.term[Selected][i] \notin {"test:skip", "expect:skip"}
        /\ event.name \in TestTerminal \cup ExpectTerminal =>
              /\ event.member = Selected =>
                    /\ HasBit(observed.inputs.runMode, FlagOnly)
                    /\ ~HasBit(observed.inputs.runMode, FlagSkip)
              /\ event.member \in Descendants(ObservedTree, Selected) =>
                    OnlyNoInheritedSkip(observed.inputs.runMode, event.member)

\* the resolved run mode of member p, a member with a call on the stack
\* (0 when it has none): the mode its call has resolved, or for an
\* assertion that is visiting its nested assertions the mode it will resolve
ResolvedModeOf(p) ==
    IF \E i \in 1..Len(stack) : stack[i].member = p /\ stack[i].op # "visit"
    THEN LET frame == stack[CHOOSE i \in 1..Len(stack) :
                                stack[i].member = p /\ stack[i].op # "visit"]
         IN  IF frame.op \in ResolvedOps
             THEN frame.runMode
             ELSE resolveRunMode(frame.runMode, observed.task, p)
    ELSE 0

\* the child's resolved mode has every bit of the parent's, but for a Skip
\* bit that the position match on child n cleared
Inherits(parentMode, childMode, n) ==
    \A bit \in {FlagFail, FlagOnly, FlagSkip, FlagTodo} :
        HasBit(parentMode, bit) =>
            \/ HasBit(childMode, bit)
            \/ bit = FlagSkip /\ n = Selected

(* C25 as stated: the resolved run mode of every visited member has every  *)
(* bit of the resolved mode of its parent, but for a Skip bit cleared by    *)
(* the position match on the member, whatever the brand of the parent, an  *)
(* assertion with nested assertions included.                              *)
C25_Inheritance ==
    observed.task # 0 =>
        /\ \A i \in 1..Len(stack) :
              stack[i].op \in ResolvedOps /\ ObservedTree[stack[i].member].parent # 0 =>
                  Inherits(ResolvedModeOf(ObservedTree[stack[i].member].parent),
                           stack[i].runMode, stack[i].member)
        /\ event.name \in TestTerminal \cup ExpectTerminal
              /\ ObservedTree[event.member].parent # 0 =>
                  Inherits(ResolvedModeOf(ObservedTree[event.member].parent),
                           observed.inputs.runMode, event.member)

-----------------------------------------------------------------------------
(* Properties of the pruning by hasOnly *)

\* some member of the file has the Only flag, or the only filter is set, or
\* the task has a position
FileHasOnly ==
    \/ \E n \in 1..Len(ObservedTree) : HasBit(ObservedFlags[n], FlagOnly)
    \/ resolvedConfig.only.set
    \/ Selected # 0

\* the only filter is set and matches no name of the file, or the task has
\* a position that is the start of no member
SelectsNothing ==
    \/ /\ resolvedConfig.only.set
       /\ \A n \in 1..Len(ObservedTree) :
             ~NameIncludes(resolvedConfig.only, observed.task, n)
    \/ Selected # 0 /\ Selected \notin 1..Len(ObservedTree)

\* no member of the file resolves to Only by itself: none has the Only
\* flag, a name the only filter matches, or its start at the position
NoOnlyMember ==
    /\ ~hasOnly(ObservedTree, ObservedFlags)
    /\ resolvedConfig.only.set =>
          \A n \in 1..Len(ObservedTree) :
              ~NameIncludes(resolvedConfig.only, observed.task, n)
    /\ Selected \notin 1..Len(ObservedTree)

\* no test of the file ended but in test:skip or test:todo and no assertion
\* but in expect:skip
NothingEvaluated ==
    \A n \in 1..Len(ObservedTree) :
        \A i \in 1..Len(observed.term[n]) :
            observed.term[n][i] \in {"describe:end", "test:skip", "test:todo", "expect:skip"}

\* the terminal event is of a member pruned by hasOnly: the published event
\* is the terminal event of a test whose resolved mode has neither Only nor
\* Todo, or of an assertion whose resolved mode has no Only
PrunedTerminal ==
    \/ /\ event.name \in TestTerminal
       /\ ~HasBit(observed.inputs.runMode, FlagOnly)
       /\ ~HasBit(observed.inputs.runMode, FlagTodo)
    \/ /\ event.name \in ExpectTerminal
       /\ ~HasBit(observed.inputs.runMode, FlagOnly)

(* C26, as amended: a file is pruned by hasOnly iff some member has the    *)
(* Only flag, or the only filter is set, or the task has a position: in    *)
(* such a file a visited test whose resolved mode has neither Only nor     *)
(* Todo ends in test:skip and a visited assertion whose resolved mode has  *)
(* no Only in expect:skip, and in any other file a test or assertion is    *)
(* skipped only when its resolved mode has Skip.  In a pruned file where   *)
(* no member has the Only flag, a name the only filter matches, or its     *)
(* start at the position, nothing is evaluated.                            *)
C26_HasOnly ==
    observed.task # 0 =>
        /\ FileHasOnly /\ PrunedTerminal => event.name \in {"test:skip", "expect:skip"}
        /\ ~FileHasOnly /\ event.name \in {"test:skip", "expect:skip"} =>
              HasBit(observed.inputs.runMode, FlagSkip)
        /\ FileHasOnly /\ NoOnlyMember => NothingEvaluated

(* C26 as stated: when the only filter matches no name or the position is  *)
(* the start of no member, nothing in the file is evaluated.               *)
C26_AsStated ==
    observed.task # 0 =>
        /\ FileHasOnly /\ PrunedTerminal => event.name \in {"test:skip", "expect:skip"}
        /\ SelectsNothing => NothingEvaluated

\* test { expect } with a position past the last member: both skipped
C26_Witness ==
    /\ pc = "taskEnd"
    /\ observed.task # 0
    /\ tasks[observed.task].file = 3
    /\ Selected = 3
    /\ observed.term[1] = << "test:skip" >>
    /\ observed.term[2] = << "expect:skip" >>

-----------------------------------------------------------------------------
(* Properties of the terminal event of a test *)

\* an assertion below member n ended in expect:fail or expect:error
AssertionFailedBelow(n) ==
    \E a \in Descendants(ObservedTree, n) :
        \E i \in 1..Len(observed.term[a]) :
            observed.term[a][i] \in {"expect:fail", "expect:error"}

\* the terminal event of a test by the precedence of #visitTest
TerminalOfTest(runMode, diagnostics, failed) ==
    IF HasBit(runMode, FlagTodo) THEN "test:todo"
    ELSE IF diagnostics /\ ~IsSkipped(runMode, observed.task) THEN "test:error"
    ELSE IF IsSkipped(runMode, observed.task) THEN "test:skip"
    ELSE IF failed THEN "test:fail"
    ELSE "test:pass"

(* C27: the terminal event of a test follows this precedence: test:todo    *)
(* with Todo; else test:error with diagnostics on a test that is not       *)
(* skipped, its members not visited; else, after the visit of the members, *)
(* test:skip with Skip or pruned by hasOnly, also when Only is set beside  *)
(* Skip; else test:fail when an assertion of the test ended in expect:fail *)
(* or expect:error, and test:pass otherwise.  The members are visited only *)
(* when neither test:todo nor test:error is due.                           *)
C27_TestTerminal ==
    [][/\ event'.name \in TestTerminal =>
             /\ Top.member = event'.member
             /\ Top.op \in {"test", "testEnd"}
             /\ Top.op = "test" =>
                   /\ event'.name \in {"test:todo", "test:error"}
                   /\ event'.name = TerminalOfTest(observed'.inputs.runMode,
                                                   observed'.inputs.diagnostics, FALSE)
                   /\ \A d \in Descendants(ObservedTree, Top.member) : Untouched(d)
             /\ Top.op = "testEnd" =>
                   /\ event'.name \in {"test:skip", "test:fail", "test:pass"}
                   /\ event'.name = TerminalOfTest(observed'.inputs.runMode, FALSE,
                                                   AssertionFailedBelow(Top.member))
       /\ pc = "visit" /\ Top.op = "test" /\ event' = NoEvent =>
             /\ ~HasBit(observed'.inputs.runMode, FlagTodo)
             /\ observed'.inputs.diagnostics =>
                   IsSkipped(observed'.inputs.runMode, observed.task)
      ]_vars

\* test { expect } with Skip and Only on the test: the assertion was
\* visited and the test ended in test:skip
C27_Witness ==
    /\ observed.task # 0
    /\ tasks[observed.task].file = 3
    /\ HasBit(ObservedFlags[1], FlagSkip) /\ HasBit(ObservedFlags[1], FlagOnly)
    /\ observed.start[2] = 1
    /\ event.name = "test:skip"
    /\ event.member = 1

-----------------------------------------------------------------------------
(* Properties of the diagnostics of an assertion *)

\* the step publishes the terminal event of an assertion that is not
\* skipped and has diagnostics
EndsWithDiagnostics ==
    /\ event'.name \in ExpectTerminal \ {"expect:skip"}
    /\ observed'.inputs.diagnostics

\* ExpectService.match was called in the step
Matched == observed'.inputs.matchResult # ""

(* C28: for an assertion that is not skipped and has diagnostics, when the *)
(* matcher is not toRaiseError the only terminal event is one expect:error *)
(* with the diagnostics and ExpectService.match is not called; when the    *)
(* matcher is toRaiseError ExpectService.match is called, and expect:error *)
(* is published only when match returned undefined after reporting, or     *)
(* when the assertion held against the Fail bit.                           *)
C28_AssertionDiagnostics ==
    [][EndsWithDiagnostics =>
          /\ Top.op = "expect" /\ Top.member = event'.member
          /\ ~IsSkipped(Top.runMode, taskIndex)
          /\ observed.term[Top.member] = << >>
          /\ observed'.inputs.matcher # "toRaiseError" =>
                /\ event'.name = "expect:error"
                /\ event'.diagnostics = ErrorDiagnostics
                /\ ~Matched
          /\ observed'.inputs.matcher = "toRaiseError" =>
                /\ Matched
                /\ event'.name = "expect:error" =>
                      \/ observed'.inputs.matchResult = "undefined"
                      \/ /\ HasBit(Top.runMode, FlagFail)
                         /\ Truth(observed'.inputs.isNot, observed'.inputs.matchResult)
      ]_vars

\* an assertion with diagnostics and toRaiseError was matched and passed
\* after an earlier assertion of the test ended in expect:error
C28_Witness ==
    /\ observed.task # 0
    /\ tasks[observed.task].file = 7
    /\ observed.term[2] = << "expect:error" >>
    /\ event.member = 3
    /\ event.name = "expect:pass"
    /\ observed.inputs.diagnostics
    /\ observed.inputs.matcher = "toRaiseError"
    /\ observed.inputs.matchResult = "match"

-----------------------------------------------------------------------------
(* Properties of a validation error and the rest of the run *)

\* member n of the observed file fails member.validate()
InvalidMember(n) == Len(validate(ObservedTree, n)) > 0

\* visit published task:error for the validation of a member of the
\* observed file
ValidationFailed ==
    \E n \in 1..Len(ObservedTree) : InvalidMember(n) /\ observed.errors[n] = 1

\* the target the observed task was last started on
ObservedTarget ==
    CHOOSE t \in Targets :
        /\ <<t, observed.task, "task:start">> \in observed.published
        /\ \A u \in Targets :
              u > t => <<u, observed.task, "task:start">> \notin observed.published

\* no event of a task later than the observed one was published
NoLaterTask ==
    \A p \in observed.published :
        p[2] # 0 =>
            \/ p[1] < ObservedTarget
            \/ p[1] = ObservedTarget /\ p[2] <= observed.task

(* C29, as amended: a member that fails validation gets exactly one        *)
(* task:error when the loop gets to it, and no other event; its            *)
(* descendants and its later siblings get no event.  Without a cancelled   *)
(* token every file is run on every target whose compiler loads; with      *)
(* failFast the task:error cancels the token, and no later file is started *)
(* on any target.                                                          *)
C29_StructuralError ==
    /\ observed.task # 0 =>
          /\ \A n \in 1..Len(ObservedTree) :
                InvalidMember(n) =>
                    /\ observed.start[n] = 0 /\ observed.term[n] = << >>
                    /\ observed.errors[n] <= 1
                    /\ Reached(ObservedTree, n) => observed.errors[n] = 1
                    /\ \A d \in Descendants(ObservedTree, n) : Untouched(d)
                    /\ \A s \in LaterSiblings(ObservedTree, n) : Untouched(s)
          /\ resolvedConfig.failFast /\ ValidationFailed =>
                /\ pc # "done" => cancellationToken.isCancelled
                /\ NoLaterTask
    /\ pc = "done" /\ observed.log # << >> /\ ~WasCancelled =>
          \A t \in Targets \ observed.unloaded : RanAllTasks(t)

(* C29 as stated: after the task:error of a validation, in a run with no   *)
(* other error, every file is run on every target.                         *)
C29_AsStated ==
    /\ pc = "done"
    /\ observed.faults = 0
    /\ \A p \in observed.published : p[3] \notin {"expect:error", "expect:fail"}
    /\ \E p \in observed.published : p[3] = "task:error"
    => \A t \in Targets : RanAllTasks(t)

\* describe { expect } and expect without failFast: the first file got its
\* task:error, the second was run and its assertion passed
C29_Witness ==
    /\ pc = "done"
    /\ Len(tasks) = 2
    /\ tasks[1].file = 4
    /\ tasks[2].file = 2
    /\ <<1, 1, "task:error">> \in observed.published
    /\ RanAllTasks(1)
    /\ observed.task = 2
    /\ observed.term[1] = << "expect:pass" >>

-----------------------------------------------------------------------------
(* Properties of the status of a task *)

\* of the task that is running: a task:error was published for it, or one
\* of its assertions ended in expect:fail or expect:error, or one of its
\* tests in test:fail or test:error
TaskHasFailure ==
    LET tally == observed.tally[Len(observed.tally)]
    IN  \/ <<targetIndex, taskIndex, "task:error">> \in observed.published
        \/ tally["expect:fail"] + tally["expect:error"] > 0
        \/ tally["test:fail"] + tally["test:error"] > 0

\* the status of every TaskResult but the current one is left as it is
OthersKeepStatus ==
    \A r \in 1..Len(taskResults) :
        r # handler.taskResult => taskResults'[r].status = taskResults[r].status

(* C30: the step of task:end sets the status of the task to failed when a  *)
(* task:error was published for it or one of its assertions or tests       *)
(* counted as failed, and to passed otherwise, and increments the          *)
(* fileCount of that bucket by one.  No other step changes fileCount or    *)
(* the status of a task that has ended; before its task:end the status of  *)
(* a task is never passed: it is the initial one but for the mark that     *)
(* task:error leaves.                                                      *)
C30_TaskStatus ==
    [][IF event'.name = "task:end"
       THEN LET status == IF TaskHasFailure THEN "failed" ELSE "passed"
            IN  /\ handler.taskResult = Len(taskResults)
                /\ taskResults'[handler.taskResult].status = status
                /\ result'.fileCount = [result.fileCount EXCEPT ![status] = @ + 1]
                /\ OthersKeepStatus
       ELSE /\ result'.fileCount = result.fileCount
            /\ OthersKeepStatus
            /\ handler.taskResult # 0 /\ handler'.taskResult = handler.taskResult =>
                  taskResults'[handler.taskResult].status =
                     IF event'.name = "task:error"
                     THEN "failed"
                     ELSE taskResults[handler.taskResult].status
            /\ event'.name = "task:start" =>
                  taskResults'[handler'.taskResult].status = "runs"
      ]_vars

\* a task ended failed on a test:error alone: no task:error, no assertion
C30_Witness ==
    /\ event.name = "task:end"
    /\ taskResults[Len(taskResults)].status = "failed"
    /\ taskResults[Len(taskResults)].diagnostics = 0
    /\ observed.tally[Len(observed.tally)]["test:error"] = 1
    /\ Total(taskResults[Len(taskResults)].expectCount) = 0
    /\ result.fileCount.failed = 1

-----------------------------------------------------------------------------
(* Properties of the cancellation by failFast *)

\* the run got as far as run:start: Cli.run had removed its own handler
RunBegan == observed.log # << >>

\* the events Cli.run's own CancellationHandler hears, before the run
BeforeRun == {"config:error", "select:error", "store:error"}

(* C31, as amended: the token gets the reason failFast only in a step that *)
(* publishes an event with an error diagnostic while failFast is set;      *)
(* without failFast no event of the run cancels the token, with any        *)
(* reason: the token is cancelled only by an event published before the    *)
(* run, to Cli.run's own handler, with configError; and without failFast   *)
(* every task is started on every target whose compiler could be loaded,   *)
(* also when assertions fail.                                              *)
C31_FailFastOnly ==
    /\ [][/\ cancellationToken'.reason = "failFast" /\ cancellationToken.reason # "failFast" =>
                /\ resolvedConfig.failFast
                /\ \E d \in 1..Len(event'.diagnostics) : event'.diagnostics[d] = "error"
                /\ RunBegan'
          /\ ~resolvedConfig.failFast /\ cancellationToken' # cancellationToken =>
                /\ ~RunBegan'
                /\ event'.name \in BeforeRun
                /\ cancellationToken'.reason = "configError"
         ]_vars
    /\ [](~resolvedConfig.failFast /\ pc = "done" /\ RunBegan =>
             /\ ~cancellationToken.isCancelled
             /\ \A t \in Targets \ observed.unloaded : RanAllTasks(t))

(* C31 as stated: without failFast every task of every target is started.  *)
C31_AsStated ==
    ~resolvedConfig.failFast /\ pc = "done" /\ RunBegan =>
        \A t \in Targets : RanAllTasks(t)

\* a run without failFast on two files: an assertion failed in the first
\* file, the token is not cancelled, and the second file ran all the same
C31_Witness ==
    /\ ~resolvedConfig.failFast
    /\ pc = "done"
    /\ RunBegan
    /\ Len(observed.tally) = 2
    /\ observed.tally[1]["expect:fail"] > 0
    /\ ~cancellationToken.isCancelled
    /\ Len(tasks) = 2
    /\ \A t \in Targets : RanAllTasks(t)

-----------------------------------------------------------------------------
(* Properties of the run-all key *)

(* C32 as stated: the step of the run-all key leaves no timer; with files  *)
(* watched, the batch that is yielded next after the key, by the key       *)
(* itself when watch is waiting, is the whole of the watched files; with   *)
(* no file watched the step of the key yields nothing.                     *)
C32_RunAllKey ==
    [][/\ YieldStep /\ (noted.key \/ noted'.by = "key") =>
             batch' = watchedTestFiles'
       /\ noted'.key => timeout' = -1 \/ noted.key
       /\ YieldStep /\ noted'.by = "key" => Len(watchedTestFiles) > 0 /\ timeout' = -1
      ]_vars

-----------------------------------------------------------------------------
(* Properties of the removal of the last watched file *)

(* C33 as stated: the step that publishes watch:error leaves no watched    *)
(* and no changed file and no timer, does not cancel the token and does    *)
(* not end the watch; and whenever watch yields a batch after a            *)
(* watch:error, the token is not cancelled, so that the tasks of the batch *)
(* are run.                                                                *)
C33_LastFileRemoved ==
    [][/\ event'.name = "watch:error" =>
             /\ watchedTestFiles' = << >>
             /\ changedTestFiles' = << >>
             /\ timeout' = -1
             /\ watching' = watching
             /\ cancellationToken' = cancellationToken
       /\ YieldStep /\ <<0, 0, "watch:error">> \in observed.published =>
             ~cancellationToken'.isCancelled
      ]_vars

-----------------------------------------------------------------------------
(* Properties of the empty batches *)

(* C34: a batch that watch yields is never empty, and no batch is held     *)
(* when none is running.  A step taken while watch is waiting that does    *)
(* not yield, such as the flush of the timer with no changed file or the   *)
(* empty result of onClose, leaves watch waiting again, or ended when the  *)
(* wait was resolved and the token is cancelled.  The step that closes the *)
(* watchers while watch is waiting ends it.                                *)
C34_NoEmptyBatch ==
    [][/\ YieldStep => Len(batch') > 0
       /\ watching' # "yielded" => batch' = << >>
       /\ watching = "waiting" /\ ~YieldStep =>
             /\ watching' \in {"waiting", "returned"}
             /\ watching' = "returned" => cancellationToken'.isCancelled
       /\ watching = "waiting" /\ watchersOpen /\ ~watchersOpen' =>
             watching' = "returned"
      ]_vars

\* the timer fired with no changed file after the token was cancelled by
\* failFast while watch was waiting: the empty flush was swallowed and
\* watch has ended, with onClose never called
C34_Witness ==
    /\ watching = "returned"
    /\ noted.closed = ""
    /\ cancellationToken.reason = "failFast"
    /\ batch = << >>
    /\ watchersOpen

-----------------------------------------------------------------------------
(* Properties of the changes notified during a run *)

\* a notification for the file has come and the timer has not fired since
NotifiedOf(filePath) == filePath \in noted.pending

\* the file is in the batch that watch has yielded, or the watch was
\* closed or has ended, or the file is not watched any more
YieldedOrOver(filePath) ==
    \/ watching = "yielded" /\ MapHas(batch, filePath)
    \/ noted.closed # ""
    \/ watching \in {"returned", "exited"}
    \/ ~MapHas(watchedTestFiles, filePath)

\* the file system comes to rest: from some point on no file is changed
ChangesEnd == <>[][~ChangedFile]_vars

(* C35 as stated: when the notifications come to an end, a notification    *)
(* for a test file is followed by a batch that holds the file, unless the  *)
(* watch is closed or ends or the file is removed; also when the           *)
(* notification comes, or the timer fires, during the run of a batch.      *)
C35_ChangeIsYielded ==
    ChangesEnd =>
        /\ NotifiedOf("a.tst.ts") ~> YieldedOrOver("a.tst.ts")
        /\ NotifiedOf("b.tst.ts") ~> YieldedOrOver("b.tst.ts")

-----------------------------------------------------------------------------
(* Properties of the status of a target *)

\* the events that make a target failed: the store:error of a load (its
\* diagnostic is an error), project:error, task:error, and the events that
\* make a task failed at its task:end
TargetFailures ==
    {"store:error", "project:error", "task:error",
     "expect:fail", "expect:error", "test:fail", "test:error"}

\* one of them was published for target t
FailedSince(t) ==
    \E p \in observed.published : p[1] = t /\ p[3] \in TargetFailures

\* the tasks that were started on target t
TasksStarted(t) ==
    {k \in 1..Len(tasks) : <<t, k, "task:start">> \in observed.published}

(* C36, as amended: the step of target:end sets the status of the target   *)
(* to failed when a store:error, a project:error, a task:error or an event *)
(* that fails a task was published for it since its target:start, and to   *)
(* passed otherwise, and increments targetCount in that bucket by one; no   *)
(* other step changes targetCount.  A target that ends passed is one on    *)
(* which every task that was started ended passed: the tasks that were not *)
(* started, after a cancellation or for want of a compiler, do not count.  *)
C36_TargetStatus ==
    [][IF event'.name = "target:end"
       THEN LET t == handler.targetResult
                status == IF FailedSince(targetIndex) THEN "failed" ELSE "passed"
                first == Len(taskResults) - Cardinality(TasksStarted(targetIndex)) + 1
            IN  /\ t = Len(targetResults)
                /\ targetResults'[t].status = status
                /\ \A r \in 1..(t - 1) :
                      targetResults'[r].status = targetResults[r].status
                /\ result'.targetCount =
                      [result.targetCount EXCEPT ![status] = @ + 1]
                /\ status = "passed" =>
                      \A r \in first..Len(taskResults) :
                          taskResults[r].status = "passed"
       ELSE result'.targetCount = result.targetCount
      ]_vars

(* C36 as stated: a target that ends passed is one on which every task of  *)
(* the run was started and ended.                                          *)
C36_AsStated ==
    event.name = "target:end" /\ targetResults[Len(targetResults)].status = "passed" =>
        RanAllTasks(targetIndex - 1)

\* with failFast the first of two targets ended failed on a failed
\* assertion, and the second ended passed with none of its tasks started
C36_Witness ==
    /\ event.name = "target:end"
    /\ resolvedConfig.failFast
    /\ targetIndex = 3
    /\ result.targetCount.failed = 1
    /\ result.targetCount.passed = 1
    /\ <<1, 1, "expect:fail">> \in observed.published
    /\ targetResults[2].status = "passed"
    /\ TasksStarted(2) = {}

-----------------------------------------------------------------------------
(* Properties of a position on an assertion within a test *)

\* the assertions of the file
Assertions == {e \in 1..Len(ObservedTree) : ObservedTree[e].brand = "expect"}

\* the describes and tests that enclose member n
Enclosing(n) ==
    {a \in Ancestors(ObservedTree, n) : ObservedTree[a].brand \in {"describe", "test"}}

\* the tests that enclose member n
EnclosingCases(n) == {a \in Enclosing(n) : ObservedTree[a].brand = "test"}

\* member n has the only flag or its name matches the only filter
LocalOnly(n) ==
    \/ HasBit(ObservedFlags[n], FlagOnly)
    \/ (resolvedConfig.only.set /\ NameIncludes(resolvedConfig.only, observed.task, n))

\* the visit of the file has returned, and the position of the task is the
\* start of an assertion within a test that has no only flag and does not
\* match the only filter
C37_Given ==
    /\ observed.task # 0
    /\ Visited
    /\ Selected \in Assertions
    /\ EnclosingCases(Selected) # {}
    /\ \A c \in EnclosingCases(Selected) : ~LocalOnly(c)

\* no describe or test around an assertion, and no assertion but the
\* selected one, has the only flag or matches the only filter
NoOtherOnly ==
    \A e \in Assertions :
        /\ e # Selected => ~LocalOnly(e)
        /\ \A a \in Enclosing(e) : ~LocalOnly(a)

\* no describe or test around the selected assertion has the todo flag
NoTodoAbove == \A a \in Enclosing(Selected) : ~HasBit(ObservedFlags[a], FlagTodo)

\* the assertion ended in expect:fail or expect:error
Failure(e) == observed.term[e] \in {<< "expect:fail" >>, << "expect:error" >>}

\* the traversal is not stopped: no member fails the validation and the
\* run is not cancelled
NotStopped ==
    /\ \A n \in 1..Len(ObservedTree) : Len(validate(ObservedTree, n)) = 0
    /\ ~cancellationToken.isCancelled

(* C37, as amended: when moreover no describe or test around the selected  *)
(* assertion is todo, nothing else in the file is selected by the only     *)
(* flag or the only filter, and the traversal is not stopped, the selected *)
(* assertion ends in expect:pass, expect:fail or expect:error, every other *)
(* assertion in expect:skip and the enclosing test in test:skip, whatever  *)
(* the outcome of the assertion.  Whenever the selected assertion ends in  *)
(* expect:fail or expect:error, task:end makes the task failed.            *)
C37_PositionOnAssertion ==
    [][event'.name = "task:end" /\ C37_Given =>
          /\ NoTodoAbove /\ NoOtherOnly /\ NotStopped =>
                /\ observed.term[Selected] \in
                      {<< "expect:pass" >>, << "expect:fail" >>, << "expect:error" >>}
                /\ \A e \in Assertions \ {Selected} :
                      observed.term[e] = << "expect:skip" >>
                /\ \A c \in EnclosingCases(Selected) :
                      observed.term[c] = << "test:skip" >>
          /\ Failure(Selected) => taskResults'[Len(taskResults)].status = "failed"
      ]_vars

(* C37 as stated: the selected assertion ends in expect:pass, expect:fail   *)
(* or expect:error, every other assertion of the file in expect:skip, and  *)
(* the enclosing test in test:skip.                                        *)
C37_AsStated ==
    C37_Given =>
        /\ observed.term[Selected] \in
              {<< "expect:pass" >>, << "expect:fail" >>, << "expect:error" >>}
        /\ \A e \in Assertions \ {Selected} : observed.term[e] = << "expect:skip" >>
        /\ \A c \in EnclosingCases(Selected) : observed.term[c] = << "test:skip" >>

\* test { expect; expect } with the position on the second assertion, which
\* failed: the first was skipped, the test was skipped, the task is failed
C37_Witness ==
    /\ event.name = "task:end"
    /\ observed.task # 0
    /\ tasks[observed.task].file = 7
    /\ Selected = 3
    /\ observed.term = << << "test:skip" >>, << "expect:skip" >>, << "expect:fail" >> >>
    /\ taskResults[Len(taskResults)].status = "failed"

-----------------------------------------------------------------------------
(* Properties of the two maps of the watch *)

(* C38: in every state of the watch the keys of #changedTestFiles are keys *)
(* of #watchedTestFiles, and no key is held twice.                         *)
C38_ChangedAreWatched ==
    /\ \A i \in 1..Len(changedTestFiles) : MapHas(watchedTestFiles, changedTestFiles[i])
    /\ \A i, j \in 1..Len(changedTestFiles) :
          changedTestFiles[i] = changedTestFiles[j] => i = j
    /\ \A i, j \in 1..Len(watchedTestFiles) :
          watchedTestFiles[i] = watchedTestFiles[j] => i = j

\* after a removal that left no watched file, notifications that gave
\* b.tst.ts and then a.tst.ts a task, and a press of the run-all key, which
\* has yielded the batch: one of the two watched files is changed
C38_Witness ==
    /\ <<0, 0, "watch:error">> \in observed.published
    /\ watchedTestFiles = << "b.tst.ts", "a.tst.ts" >>
    /\ changedTestFiles = << "a.tst.ts" >>
    /\ watching = "yielded"
    /\ noted.by = "key"

-----------------------------------------------------------------------------
(* Properties of the pointers of ResultHandler *)

\* the describe, or for an assertion the test, that encloses member n most
\* closely; 0 when there is none
Innermost(tree, n, brand) ==
    LET around == {a \in Ancestors(tree, n) : tree[a].brand = brand}
    IN  IF around = {} THEN 0
        ELSE CHOOSE a \in around : \A b \in around : b <= a

\* the result a new result of member n is to be pushed to: that of the
\* innermost describe, for an assertion of the innermost test, and the
\* TaskResult of the task that is running when there is none
ContainerOf(tree, n) ==
    LET brand == IF tree[n].brand = "expect" THEN "test" ELSE "describe"
        inner == Innermost(tree, n, brand)
    IN  IF inner = 0 THEN <<"task", Len(taskResults)>> ELSE <<brand, inner>>

(* C39: in the steps of task:start and of task:end the pointers of         *)
(* ResultHandler to a describe and to a test are unset, before and         *)
(* after, and task:end unsets the pointer to the task; a new result is     *)
(* pushed to the result of the innermost describe or test of its member in *)
(* the task that is running, which has started and not ended, or to the    *)
(* TaskResult of that task; when the run is over the pointers to the       *)
(* Result, the TargetResult and the TaskResult are unset too.  This holds  *)
(* after a cancellation and after a validation error within describes.     *)
C39_Pointers ==
    /\ [][/\ event'.name \in {"task:start", "task:end"} =>
                /\ handler.describeResult = 0 /\ handler'.describeResult = 0
                /\ handler.testResult = 0 /\ handler'.testResult = 0
          /\ event'.name = "task:end" => handler'.taskResult = 0
          /\ event'.name \in MemberStart =>
                LET n == event'.member
                    to == memberResults'[n].container
                IN  /\ to = ContainerOf(TreeOf(taskIndex), n)
                    /\ handler.taskResult = Len(taskResults)
                    /\ to[1] # "task" =>
                          /\ observed.start[to[2]] = 1
                          /\ observed.term[to[2]] = << >>
         ]_vars
    /\ [](pc = "done" /\ RunBegan =>
             /\ ~handler.result
             /\ handler.targetResult = 0
             /\ handler.taskResult = 0
             /\ handler.describeResult = 0
             /\ handler.testResult = 0)

\* describe { describe { test { test } } }: the validation of the test in
\* the inner describe failed, both describes got their describe:end, and
\* task:end finds the pointers unset
C39_Witness ==
    /\ event.name = "task:end"
    /\ observed.task # 0
    /\ tasks[observed.task].file = 11
    /\ observed.errors[3] = 1
    /\ observed.term[1] = << "describe:end" >>
    /\ observed.term[2] = << "describe:end" >>
    /\ handler.describeResult = 0
    /\ handler.testResult = 0
    /\ handler.taskResult = 0

=============================================================================
